---- MODULE Spec2Model ----
(***************************************************************************)
(* Model of the screenshot RPC cluster: JSON-RPC gateway handlers, the     *)
(* TaskManager facade over the Redis broker (task queue, status keys,      *)
(* result mailboxes) and the Worker main loop.                             *)
(*                                                                         *)
(* Every Redis command is one atomic step; the MULTI/EXEC pipeline of      *)
(* submit_task is one step as well.  Steps of different processes          *)
(* interleave freely.  Keys with a TTL may be evicted at any moment.       *)
(* A broker call may raise (connection loss); a call that raises has not   *)
(* been applied.  created_at / updated_at are left out of the records.     *)
(***************************************************************************)
EXTENDS Integers, Sequences, FiniteSets, TLC

\* ---------------------------------------------------------------- bounds
MaxJobs == 2
MaxWorkers == 2
MaxWaiters == 1
MaxFaults == 1
MaxRenders == 2

\* settings.MAX_CONCURRENT_SCREENSHOTS, the capacity of the semaphore
MAX_CONCURRENT_SCREENSHOTS == 1

Jobs == 1..MaxJobs
Workers == 1..MaxWorkers
Waiters == 1..MaxWaiters
Renders == 1..MaxRenders

\* ------------------------------------------------------------ error codes
PARSE_ERROR == -32700
INVALID_REQUEST == -32600
METHOD_NOT_FOUND == -32601
INVALID_PARAMS == -32602
INTERNAL_ERROR == -32603
SCREENSHOT_FAILED == -32001
BROWSER_ERROR == -32002
SELECTOR_NOT_FOUND == -32003
TIMEOUT == -32004
JOB_NOT_FOUND == -32005

\* TTL of a result mailbox, seconds
MAILBOX_TTL == 60

\* -------------------------------------------------------------- records
\* ScreenshotResult; isnull = TRUE stands for Python None
NullResult ==
  [isnull |-> TRUE, image |-> "null", image_type |-> "null", width |-> 0,
   height |-> 0, size_bytes |-> 0, error |-> "null"]

\* ScreenshotService._build_result: the result of a successful render
ImageResult ==
  [isnull |-> FALSE, image |-> "AAAA", image_type |-> "png", width |-> 100,
   height |-> 100, size_bytes |-> 3, error |-> "null"]

\* ScreenshotResult(error=msg)
ErrorResult(msg) ==
  [isnull |-> FALSE, image |-> "null", image_type |-> "null", width |-> 0,
   height |-> 0, size_bytes |-> 0, error |-> msg]

\* JobResult
JobResult(id, st, res) == [job_id |-> id, status |-> st, result |-> res]

\* Python None where a JobResult is expected
NoJob == JobResult(0, "none", NullResult)

\* ScreenshotParams.timeout_ms: Field(ge=0, le=120_000)
MIN_TIMEOUT_MS == 0
MAX_TIMEOUT_MS == 120000

\* ScreenshotParams: html must be non-empty after strip ("absent": the key
\* is missing from the params dict), timeout_ms must be in range
HtmlInputs == {"", " ", "<p>a</p>"}
ScreenshotParams == [html : HtmlInputs, timeout_ms : {MAX_TIMEOUT_MS}]
NoParams == [html |-> "none", timeout_ms |-> 0]

\* the names of the fields ScreenshotParams.model_validate rejects
InvalidFields(p) ==
  (IF p.html \in {"absent", "", " "} THEN {"html"} ELSE {})
    \cup (IF p.timeout_ms < MIN_TIMEOUT_MS \/ p.timeout_ms > MAX_TIMEOUT_MS
            THEN {"timeout_ms"} ELSE {})

\* faulty variant: a blank html passes validation
ValidParamsBlankHtml(p) == InvalidFields(p) \subseteq {"html"}

\* ScreenshotParams.model_validate succeeds
ValidParams(p) == InvalidFields(p) = {}

\* faulty variant: the wait is bounded by the render timeout alone
WaitTimeoutNoSlack(p) == p.timeout_ms \div 1000

\* the timeout _handle_screenshot passes to wait_for_result, seconds:
\* int(timeout_ms / 1000) + 5
WaitTimeout(p) == (p.timeout_ms \div 1000) + 5

\* the ScreenshotServiceError kinds screenshot() raises once the browser is
\* started (Worker.start runs before Worker.run), with exc.code and str(exc)
SvcErrors == {"SELECTOR_NOT_FOUND", "TIMEOUT", "SCREENSHOT_FAILED"}
RenderOutcomes == {"ok"} \cup SvcErrors

SvcErrorCode(kind) ==
  CASE kind = "SELECTOR_NOT_FOUND" -> SELECTOR_NOT_FOUND
    [] kind = "TIMEOUT" -> TIMEOUT
    [] OTHER -> SCREENSHOT_FAILED

SvcErrorText(kind) ==
  CASE kind = "SELECTOR_NOT_FOUND" -> "selector matched no element"
    [] kind = "TIMEOUT" -> "operation timed out"
    [] OTHER -> "screenshot service internal error"

\* f"internal error: {type(exc).__name__}"
InternalErrorText == "internal error: Exception"

\* --------------------------------------------------- JSON-RPC envelopes
\* a JSON value in the id field (t = "absent": the key is missing) and the
\* Python value of rpc_id / JsonRpcResponse.id (t = "none": None)
IdAbsent == [t |-> "absent", s |-> "", n |-> 0]
IdNull == [t |-> "null", s |-> "", n |-> 0]
IdStr(s) == [t |-> "str", s |-> s, n |-> 0]
IdInt(n) == [t |-> "int", s |-> "", n |-> n]
IdArray == [t |-> "array", s |-> "", n |-> 0]
PyNone == [t |-> "none", s |-> "", n |-> 0]

IdInputs == {IdAbsent, IdNull, IdStr("abc"), IdStr("7"), IdInt(7), IdArray}

\* Optional[Union[str, int]] accepts the value
IdValid(id) == id.t \in {"absent", "null", "str", "int"}

\* faulty variant: the id is carried as text
ValidateIdAsText(id) ==
  IF id.t \in {"absent", "null"} THEN PyNone
  ELSE IF id.t = "int" THEN IdStr(ToString(id.n))
  ELSE id

\* JsonRpcRequest.id after model_validate: a str stays a str, an int an int
ValidateId(id) == IF id.t \in {"absent", "null"} THEN PyNone ELSE id

\* payload.get("id")
PayloadGetId(id) == IF id.t \in {"absent", "null"} THEN PyNone ELSE id

\* a job id no submit_task has handed out
UnknownJob == MaxJobs + 1

\* the params member of a request: absent, a JSON array, or an object with
\* html ("absent": no such key), timeout_ms and job_id (0: no such key)
ParamsAbsent ==
  [t |-> "absent", html |-> "absent", timeout_ms |-> MAX_TIMEOUT_MS, job_id |-> 0]
ParamsArray ==
  [t |-> "array", html |-> "absent", timeout_ms |-> MAX_TIMEOUT_MS, job_id |-> 0]
ParamsDict(html, timeout_ms, job_id) ==
  [t |-> "dict", html |-> html, timeout_ms |-> timeout_ms, job_id |-> job_id]

\* request.params or {}
ParamsOrEmpty(p) == IF p.t = "absent" THEN [p EXCEPT !.t = "dict"] ELSE p

\* the fields of the params dict ScreenshotParams.model_validate reads
AsScreenshotParams(p) == [html |-> p.html, timeout_ms |-> p.timeout_ms]

\* a JSON object sent as request ("absent": no such key)
Envelope(jsonrpc, method, params, id) ==
  [jsonrpc |-> jsonrpc, method |-> method, params |-> params, id |-> id]
NoEnvelope == Envelope("none", "none", ParamsAbsent, IdAbsent)

\* _METHOD_REGISTRY
MethodRegistry == {"screenshot", "get_job_status", "ping", "get_methods"}

\* JsonRpcRequest.model_validate(payload) succeeds: jsonrpc is "2.0" or
\* missing, method is there, params is an object or missing, id is str | int
EnvelopeValid(obj) ==
  /\ obj.jsonrpc \in {"absent", "2.0"}
  /\ obj.method # "absent"
  /\ obj.params.t \in {"absent", "dict"}
  /\ IdValid(obj.id)

\* the argument of RpcHandler.handle: py is its Python type; for str and
\* bytes t says what the text is as JSON ("malformed", or the kind of value)
\* and obj is the object it encodes; for a dict obj is the dict itself
Raw(py, t, obj) == [py |-> py, t |-> t, obj |-> obj]
NoRaw == Raw("none", "none", NoEnvelope)

\* the body of POST /rpc: t says what the text is as JSON; "string" is a
\* JSON string whose content is not JSON, "string_json" a JSON string whose
\* content is the JSON text of obj
Body(t, obj) == [t |-> t, obj |-> obj]

\* await request.json() in handle_rpc: the Python value handed to handle()
HttpPayload(body) ==
  CASE body.t = "object" -> Raw("dict", "object", body.obj)
    [] body.t = "array" -> Raw("list", "none", NoEnvelope)
    [] body.t = "number" -> Raw("int", "none", NoEnvelope)
    [] body.t = "null" -> Raw("None", "none", NoEnvelope)
    [] body.t = "string" -> Raw("str", "malformed", NoEnvelope)
    [] body.t = "string_json" -> Raw("str", "object", body.obj)
    [] OTHER -> NoRaw

\* ----------------------------------------------------- ScreenshotService
\* a URL, as the sequence of its characters
DataPrefix == <<"d", "a", "t", "a", ":">>
DataUrl == <<"d", "a", "t", "a", ":", "i", "m", "g">>
HttpUrl == <<"h", "t", "t", "p", ":", "/", "/", "h">>
QueryUrl == <<"h", "t", "t", "p", ":", "/", "/", "h", "?", "d", "a", "t", "a", ":">>
SchemeUrl == <<"d", "a", "t", "a">>
UpperUrl == <<"D", "A", "T", "A", ":", "x">>

\* str.startswith
StartsWith(s, prefix) ==
  Len(s) >= Len(prefix) /\ SubSeq(s, 1, Len(prefix)) = prefix

\* faulty variant: a URL that has "data:" anywhere is let through
RouteHookAnywhere(url) ==
  IF \E i \in 1..Len(url) :
       i + Len(DataPrefix) - 1 <= Len(url)
         /\ SubSeq(url, i, i + Len(DataPrefix) - 1) = DataPrefix
    THEN "continue" ELSE "abort"

\* the lambda given to context.route("**/*", ...)
RouteHook(url) == IF StartsWith(url, DataPrefix) THEN "continue" ELSE "abort"

\* the URLs the document asks for while it loads
ContentInputs ==
  { {}, {DataUrl}, {DataUrl, HttpUrl, QueryUrl, SchemeUrl, UpperUrl} }

\* the selector and wait_for_selector values: "none" is Python None, "#box"
\* matches an element of the document, "#miss" matches nothing
SelectorInputs == {"none", "", "#box", "#miss"}

\* the ScreenshotParams fields _render_and_capture reads (urls: what the
\* html refers to)
RenderParams ==
  [urls : ContentInputs, clip : BOOLEAN, selector : SelectorInputs,
   full_page : BOOLEAN, omit_background : BOOLEAN,
   wait_for_selector : {"none", "#box", "#miss"}]

PlainRenderParams ==
  [urls |-> {}, clip |-> FALSE, selector |-> "none", full_page |-> FALSE,
   omit_background |-> FALSE, wait_for_selector |-> "none"]

\* the arguments of the screenshot call made on the page or on the element;
\* "unset": the keyword is not passed
NoShot ==
  [api |-> "none", clip |-> FALSE, full_page |-> "unset",
   omit_background |-> "unset", element |-> "none"]

BoolText(b) == IF b THEN "true" ELSE "false"

\* a Python truth test of an Optional[str]
Truthy(str) == str \notin {"none", ""}

\* faulty variant: the selector is tried before the clip
CaptureSelectorFirst(p) ==
  IF Truthy(p.selector)
    THEN IF p.selector = "#miss"
           THEN [shot |-> NoShot, queried |-> TRUE, exc |-> "SELECTOR_NOT_FOUND"]
           ELSE [shot |-> [NoShot EXCEPT !.api = "element.screenshot",
                                         !.element = p.selector],
                 queried |-> TRUE, exc |-> "none"]
  ELSE [shot |-> [NoShot EXCEPT !.api = "page.screenshot", !.clip = p.clip,
                                !.full_page = BoolText(p.full_page),
                                !.omit_background = BoolText(p.omit_background)],
        queried |-> FALSE, exc |-> "none"]

\* _render_and_capture lines 190-224: the screenshot call that is made,
\* whether query_selector was called, and the error raised
Capture(p) ==
  IF p.clip
    THEN [shot |-> [NoShot EXCEPT !.api = "page.screenshot", !.clip = TRUE,
                                  !.full_page = BoolText(p.full_page),
                                  !.omit_background = BoolText(p.omit_background)],
          queried |-> FALSE, exc |-> "none"]
  ELSE IF Truthy(p.selector)
    THEN IF p.selector = "#miss"
           THEN [shot |-> NoShot, queried |-> TRUE, exc |-> "SELECTOR_NOT_FOUND"]
           ELSE [shot |-> [NoShot EXCEPT !.api = "element.screenshot",
                                         !.element = p.selector],
                 queried |-> TRUE, exc |-> "none"]
  ELSE [shot |-> [NoShot EXCEPT !.api = "page.screenshot",
                                !.full_page = BoolText(p.full_page),
                                !.omit_background = BoolText(p.omit_background)],
        queried |-> FALSE, exc |-> "none"]

\* ------------------------------------------------ image dimension parsers
\* a bytes object is the sequence of its bytes, 0..255
PNG_SIGNATURE == <<137, 80, 78, 71, 13, 10, 26, 10>>
JPEG_SOI == <<255, 216>>
SOF_MARKERS == {65472, 65473, 65474}

Min(a, b) == IF a <= b THEN a ELSE b

\* data[a:b] and BytesIO.read: the bytes at offsets a .. b-1 that exist
Slice(data, a, b) ==
  IF a >= Min(b, Len(data)) THEN << >> ELSE SubSeq(data, a + 1, Min(b, Len(data)))

\* struct.unpack(">H" | ">I", bytes): big-endian unsigned
RECURSIVE BigEndian(_)
BigEndian(bytes) ==
  IF bytes = << >> THEN 0
  ELSE BigEndian(SubSeq(bytes, 1, Len(bytes) - 1)) * 256 + bytes[Len(bytes)]

\* a (width, height) tuple
Dims(w, h) == [width |-> w, height |-> h]

\* faulty variant: width and height are read from the start of the IHDR chunk
PngDimensionsAtChunkStart(data) ==
  IF Len(data) < 24 \/ Slice(data, 0, 8) # PNG_SIGNATURE
    THEN Dims(0, 0)
    ELSE Dims(BigEndian(Slice(data, 8, 12)), BigEndian(Slice(data, 12, 16)))

\* _png_dimensions
PngDimensions(data) ==
  IF Len(data) < 24 \/ Slice(data, 0, 8) # PNG_SIGNATURE
    THEN Dims(0, 0)
    ELSE Dims(BigEndian(Slice(data, 16, 20)), BigEndian(Slice(data, 20, 24)))

\* _jpeg_dimensions, the while loop with buf at offset pos
RECURSIVE JpegWalk(_, _)
JpegWalk(data, pos) ==
  LET marker_data == Slice(data, pos, pos + 2)
      length_data == Slice(data, pos + 2, pos + 4)
      height_data == Slice(data, pos + 5, pos + 7)
      width_data == Slice(data, pos + 7, pos + 9)
  IN IF Len(marker_data) < 2 \/ Len(length_data) < 2 THEN Dims(0, 0)
     ELSE IF BigEndian(marker_data) \in SOF_MARKERS
       THEN IF Len(height_data) < 2 \/ Len(width_data) < 2 THEN Dims(0, 0)
            ELSE Dims(BigEndian(width_data), BigEndian(height_data))
     ELSE IF BigEndian(length_data) > 2
       THEN JpegWalk(data, Min(pos + 2 + BigEndian(length_data), Len(data)))
     ELSE Dims(0, 0)

\* _jpeg_dimensions
JpegDimensions(data) ==
  IF Slice(data, 0, 2) # JPEG_SOI THEN Dims(0, 0) ELSE JpegWalk(data, 2)

\* _parse_image_dimensions
ParseImageDimensions(data, image_type) ==
  IF image_type = "png" THEN PngDimensions(data) ELSE JpegDimensions(data)

\* data without its last k bytes
Truncated(data, k) == SubSeq(data, 1, Len(data) - Min(k, Len(data)))

\* the sequences of at most two elements of a set
UpToTwo(S) == {<< >>} \cup {<<a>> : a \in S} \cup {<<a, b>> : a \in S, b \in S}

RECURSIVE Concat(_)
Concat(seqs) == IF seqs = << >> THEN << >> ELSE Head(seqs) \o Concat(Tail(seqs))

\* PNG-like inputs: a signature (intact, or with one byte off), the length
\* and type of the first chunk, width and height, cut short or followed
\* by more bytes
PngHeads ==
  {PNG_SIGNATURE} \cup {[PNG_SIGNATURE EXCEPT ![i] = 0] : i \in 1..8}
PngWords ==
  {<<0, 0, 0, 0>>, <<0, 0, 0, 1>>, <<0, 0, 1, 0>>, <<0, 1, 0, 0>>,
   <<1, 0, 0, 0>>, <<127, 255, 255, 255>>}
PngInputs ==
  {Truncated(h \o <<0, 0, 0, 13, 73, 72, 68, 82>> \o w \o ht \o <<8, 6>>, k) :
     h \in PngHeads, w \in PngWords, ht \in PngWords, k \in {0, 1, 2, 3, 18, 26}}

\* JPEG-like inputs: two leading bytes, at most two segments, a frame
\* header, cut short.  Among the segments: one with a payload, an empty one
\* (length 2), lengths 1 and 0, a length that runs past the end, a marker
\* that does not start with FF, and DHT (FFC4)
JpegStarts == {JPEG_SOI, <<255, 217>>, <<216, 255>>}
JpegSegments ==
  {<<255, 224, 0, 4, 1, 2>>, <<255, 254, 0, 2>>, <<255, 254, 0, 1>>,
   <<255, 254, 0, 0>>, <<255, 224, 0, 200, 1>>, <<18, 52, 0, 3, 9>>,
   <<255, 196, 0, 3, 7>>}
JpegFrames ==
  {<<255, m, 0, 17, 8>> \o h \o w :
     m \in {192, 193, 194, 195}, h \in {<<0, 16>>, <<1, 0>>, <<255, 255>>},
     w \in {<<0, 32>>, <<2, 1>>}}
JpegInputs ==
  {Truncated(st \o Concat(segs) \o f, k) :
     st \in JpegStarts, segs \in UpToTwo(JpegSegments), f \in JpegFrames,
     k \in 0..6}

\* one call of _build_result(image_bytes, image_type)
ImageInputs ==
  [pc : {"input"}, data : PngInputs \cup JpegInputs,
   image_type : {"png", "jpeg"}, width : {0}, height : {0}, size_bytes : {0}]
NoImage ==
  [pc |-> "none", data |-> << >>, image_type |-> "png", width |-> 0,
   height |-> 0, size_bytes |-> 0]

\* one call of screenshot(): pc is the await it stands before; context is
\* the browser context it created ("none", "open", "closed"), js its
\* java_script_enabled, routed whether the hook is installed, ctxvar whether
\* the local variable context is set; requests are the requests of the page
\* with what became of them; exc is the exception on its way out, cause
\* what went wrong ("no_browser", "no_element", or the engine call that
\* failed with "timeout" or "error") and failed_at where
NoRender ==
  [pc |-> "idle", params |-> PlainRenderParams, context |-> "none",
   js |-> FALSE, routed |-> FALSE, ctxvar |-> FALSE, page |-> FALSE,
   requests |-> {}, queried |-> FALSE, shot |-> NoShot, exc |-> "none",
   cause |-> "none", failed_at |-> "none", outcome |-> "none"]

\* ------------------------------------------------------------ variables
VARIABLES
  statusStore,   \* Redis keys <REDIS_RESULT_PREFIX><job_id> : JobResult, NoJob = absent
  taskQueue,     \* Redis list REDIS_TASK_QUEUE : Seq of {job_id, params}
  mailbox,       \* Redis lists result_queue:<job_id> : Seq of JobResult
  mailboxTTL,    \* the mailbox key carries an expiry
  gateway,       \* one _handle_screenshot call per job id
  waiter,        \* further callers of wait_for_result
  worker,        \* Worker.run of each worker process
  faults,        \* broker calls that raised so far
  rpc,           \* the RpcHandler.handle call behind each handler
  render,        \* the ScreenshotService.screenshot calls of one worker
  permits,       \* free permits of ScreenshotService._semaphore
  browser,       \* ScreenshotService._browser is set
  image,         \* the _build_result call under test
  proc,          \* the worker processes: main() around Worker.run
  hist           \* history of each job id, for the properties only

\* the state of the gateways, the broker and the worker loops
clusterVars ==
  <<statusStore, taskQueue, mailbox, mailboxTTL, gateway, waiter, worker,
    faults, rpc, hist>>

\* the state of one ScreenshotService
serviceVars == <<render, permits, browser, image>>

\* the state of the worker processes outside the body of the main loop
processVars == <<proc>>

vars == <<clusterVars, serviceVars, processVars>>

\* what a method handler returns or raises: a result, or _RpcError(code,
\* message, data) with the field names of data.details
NoReply ==
  [kind |-> "none", code |-> 0, message |-> "null", result |-> NullResult,
   details |-> {}]
ResultReply(res) ==
  [kind |-> "result", code |-> 0, message |-> "null", result |-> res,
   details |-> {}]
ErrorReply(code, msg) ==
  [kind |-> "error", code |-> code, message |-> msg, result |-> NullResult,
   details |-> {}]

\* ------------------------------------------- what RpcHandler.handle returns
\* handle() has not returned yet
Pending ==
  [kind |-> "pending", id |-> PyNone, member |-> "none", code |-> 0,
   message |-> "null", details |-> {}, what |-> "none", job |-> NoJob,
   result |-> NullResult]

\* return None
NoneReturn == [Pending EXCEPT !.kind = "None"]

\* an exception leaves handle()
Raised == [Pending EXCEPT !.kind = "raises"]

\* JsonRpcResponse(id=rpc_id, ...) is built: the id is None, a str or an int
ResponseIdValid(rpc_id) == rpc_id.t \in {"none", "str", "int"}

\* _error_response(rpc_id, code, message, data).  It is called inside the
\* except clauses of handle(), so the ValidationError of a JsonRpcResponse
\* whose id is neither str nor int leaves handle()
ErrorResponse(rpc_id, code, message, details) ==
  IF ResponseIdValid(rpc_id)
    THEN [Pending EXCEPT !.kind = "response", !.id = rpc_id, !.member = "error",
                         !.code = code, !.message = message, !.details = details]
    ELSE Raised

\* faulty variant: a handler result is answered although the id is None
ResultResponseAlways(rpc_id, what, job, result) ==
  [Pending EXCEPT !.kind = "response", !.id = rpc_id, !.member = "result",
                  !.what = what, !.job = job, !.result = result]

\* handle() lines 83-89: None for a notification, else the result response
ResultResponse(rpc_id, what, job, result) ==
  IF rpc_id = PyNone THEN NoneReturn
  ELSE [Pending EXCEPT !.kind = "response", !.id = rpc_id, !.member = "result",
                       !.what = what, !.job = job, !.result = result]

\* the first part of handle(): _decode, JsonRpcRequest.model_validate and the
\* registry lookup of _dispatch.  kind "error": handle() answers with code and
\* rpc_id; kind "handler": the method handler is called
PreError(rpc_id, code, message) ==
  [kind |-> "error", rpc_id |-> rpc_id, code |-> code, message |-> message]
PreHandler(rpc_id) ==
  [kind |-> "handler", rpc_id |-> rpc_id, code |-> 0, message |-> "null"]

\* faulty variant: the method is looked up before the envelope is validated
PreDispatchMethodFirst(raw) ==
  IF raw.py \notin {"dict", "str", "bytes"}
    THEN PreError(PyNone, INTERNAL_ERROR, "internal server error")
  ELSE IF raw.py # "dict" /\ raw.t = "malformed"
    THEN PreError(PyNone, PARSE_ERROR, "JSON parse failed")
  ELSE IF raw.py # "dict" /\ raw.t # "object"
    THEN PreError(PyNone, INVALID_REQUEST, "request must be a JSON object")
  ELSE IF raw.obj.method \notin MethodRegistry
    THEN PreError(PayloadGetId(raw.obj.id), METHOD_NOT_FOUND, "method not found")
  ELSE IF ~EnvelopeValid(raw.obj)
    THEN PreError(PayloadGetId(raw.obj.id), INVALID_REQUEST, "not a JSON-RPC 2.0 request")
  ELSE PreHandler(ValidateId(raw.obj.id))

PreDispatch(raw) ==
  IF raw.py \notin {"dict", "str", "bytes"}
    \* json.loads(text) raises TypeError: except Exception
    THEN PreError(PyNone, INTERNAL_ERROR, "internal server error")
  ELSE IF raw.py # "dict" /\ raw.t = "malformed"
    THEN PreError(PyNone, PARSE_ERROR, "JSON parse failed")
  ELSE IF raw.py # "dict" /\ raw.t # "object"
    THEN PreError(PyNone, INVALID_REQUEST, "request must be a JSON object")
  ELSE IF ~EnvelopeValid(raw.obj)
    THEN PreError(PayloadGetId(raw.obj.id), INVALID_REQUEST, "not a JSON-RPC 2.0 request")
  ELSE IF raw.obj.method \notin MethodRegistry
    THEN PreError(ValidateId(raw.obj.id), METHOD_NOT_FOUND, "method not found")
  ELSE PreHandler(ValidateId(raw.obj.id))

\* one call of handle(): stage "none" (not called), "handler" (the screenshot
\* handler is running, see gateway) or "done"; http says whether the call
\* came from handle_rpc, verb the HTTP method of the request, body_t what
\* the HTTP body was as JSON
NoCall ==
  [stage |-> "none", http |-> FALSE, verb |-> "none", body_t |-> "none",
   raw |-> NoRaw,
   rpc_id |-> PyNone, response |-> Pending]

\* main() of a worker after worker.start(): should_exit is the flag the
\* signal handlers set, polling says that the loop test has passed and
\* pop_task is in flight, main is where main() stands ("run": in run(),
\* "stop": before service.stop(), "disconnect": before
\* task_manager.disconnect(), "exited"), browser_open and connected are the
\* resources worker.start() acquired
StartedProcess ==
  [should_exit |-> FALSE, polling |-> FALSE, main |-> "run",
   browser_open |-> TRUE, connected |-> TRUE]

IdleWorker ==
  [pc |-> "pop", job_id |-> 0, params |-> NoParams, call |-> "none",
   result |-> NullResult, job |-> NoJob]

\* everything but the image under test
InitCluster ==
  /\ statusStore = [j \in Jobs |-> NoJob]
  /\ taskQueue = << >>
  /\ mailbox = [j \in Jobs |-> << >>]
  /\ mailboxTTL = [j \in Jobs |-> FALSE]
  /\ gateway = [j \in Jobs |-> [pc |-> "idle", params |-> NoParams,
                                timeout |-> 0,
                                waited |-> "no", job |-> NoJob, late |-> FALSE,
                                reply |-> NoReply]]
  /\ waiter = [x \in Waiters |->
                 [pc |-> "idle", job_id |-> 0, job |-> NoJob, late |-> FALSE]]
  /\ worker = [w \in Workers |-> IdleWorker]
  /\ faults = 0
  /\ proc = [w \in Workers |-> StartedProcess]
  /\ rpc = [j \in Jobs |-> NoCall]
  /\ render = [c \in Renders |-> NoRender]
  /\ permits = MAX_CONCURRENT_SCREENSHOTS
  /\ browser = FALSE
  /\ hist = [j \in Jobs |->
       [created |-> FALSE, enqueued |-> FALSE, statuses |-> << >>,
        dequeued |-> 0,
        rendered |-> 0, outcome |-> "none", pushes |-> 0]]

Init == InitCluster /\ image = NoImage

\* ------------------------------------------------------ TaskManager parts
KeyExists(j) == statusStore[j] # NoJob

\* get_job: the record under the status key, NoJob when the key is gone
GetJob(j) == statusStore[j]

\* redis SET key value ex=REDIS_RESULT_TTL_SECONDS
SetStatusKey(store, job) == [store EXCEPT ![job.job_id] = job]

\* faulty variant: the status key is stored, the queue entry is not pushed
PushTaskDropped(queue, j, p) == queue

\* redis RPUSH REDIS_TASK_QUEUE {job_id, params}
PushTask(queue, j, p) == Append(queue, [job_id |-> j, params |-> p])

\* faulty variant: pop_task returns the head of the task queue and leaves it there
QueuePeek(queue) == queue

\* redis BLPOP REDIS_TASK_QUEUE: the list after the pop
QueueAfterPop(queue) == Tail(queue)

\* faulty variant: the record is stored as it was published
KeepImage(job) == job

\* update_job_status step 2: the image is cleared before the record is stored
StripImage(job) ==
  IF ~job.result.isnull /\ job.result.image # "null"
    THEN [job EXCEPT !.result.image = "null"]
    ELSE job

\* update_job_status step 1: a terminal status is announced on the mailbox
IsTerminal(st) == st \in {"success", "failed"}

\* faulty variant: the waiter reads the head of the mailbox and leaves it there
MailboxPeek(box) == box

\* redis BLPOP result_queue:<job_id>; an emptied list is deleted with its expiry
MailboxAfterPop(box) == Tail(box)

\* faulty variant: a failed job is reported as a timeout
ScreenshotReplyFailedAsTimeout(job) ==
  IF job = NoJob \/ job.status = "failed" THEN ErrorReply(TIMEOUT, "job timed out")
  ELSE IF ~job.result.isnull THEN ResultReply(job.result)
  ELSE ErrorReply(INTERNAL_ERROR, "abnormal job result")

\* _handle_screenshot after wait_for_result returned job
ScreenshotReply(job) ==
  IF job = NoJob THEN ErrorReply(TIMEOUT, "job timed out")
  ELSE IF job.status = "failed"
    THEN ErrorReply(SCREENSHOT_FAILED,
           IF ~job.result.isnull THEN job.result.error ELSE "job failed")
  ELSE IF ~job.result.isnull THEN ResultReply(job.result)
  ELSE ErrorReply(INTERNAL_ERROR, "abnormal job result")

\* ------------------------------------------------------- gateway actions
\* ScreenshotParams.model_validate raises: -32602, the broker is not touched
GInvalidParams(j, p) ==
  /\ gateway[j].pc = "idle"
  /\ ~ValidParams(p)
  /\ gateway' = [gateway EXCEPT ![j].pc = "done",
                   ![j].reply =
                     [ErrorReply(INVALID_PARAMS, "params validation failed")
                        EXCEPT !.details = InvalidFields(p)]]
  /\ UNCHANGED <<serviceVars, processVars, rpc, statusStore, taskQueue, mailbox, mailboxTTL, waiter, worker, faults, hist>>

\* faulty variant: the task is queued without its status key
SubmitTaskQueueOnly(j, p) ==
  /\ statusStore' = statusStore
  /\ taskQueue' = PushTask(taskQueue, j, p)
  /\ hist' = [hist EXCEPT ![j].created = (statusStore'[j] # NoJob),
                          ![j].enqueued = (taskQueue' # taskQueue)]

\* submit_task: SET and RPUSH in one MULTI/EXEC transaction
SubmitTask(j, p) ==
  /\ statusStore' = SetStatusKey(statusStore, JobResult(j, "pending", NullResult))
  /\ taskQueue' = PushTask(taskQueue, j, p)
  /\ hist' = [hist EXCEPT ![j].created = (statusStore'[j] # NoJob),
                          ![j].enqueued = (taskQueue' # taskQueue),
                          ![j].statuses = Append(@, "pending")]

GSubmit(j, p) ==
  /\ gateway[j].pc = "idle"
  /\ ValidParams(p)
  /\ SubmitTask(j, p)
  /\ gateway' = [gateway EXCEPT ![j].pc = "wait", ![j].params = p,
                                ![j].timeout = WaitTimeout(p)]
  /\ UNCHANGED <<serviceVars, processVars, rpc, mailbox, mailboxTTL, waiter, worker, faults>>

\* pipe.execute() raises: handle() answers -32603
GSubmitRaises(j, p) ==
  /\ gateway[j].pc = "idle"
  /\ ValidParams(p)
  /\ faults < MaxFaults
  /\ faults' = faults + 1
  /\ gateway' = [gateway EXCEPT ![j].pc = "done",
                   ![j].reply = ErrorReply(INTERNAL_ERROR, "internal server error")]
  /\ UNCHANGED <<serviceVars, processVars, rpc, statusStore, taskQueue, mailbox, mailboxTTL, waiter, worker, hist>>

\* wait_for_result: BLPOP delivers the head of the mailbox
GWaitResult(j) ==
  /\ gateway[j].pc = "wait"
  /\ mailbox[j] # << >>
  /\ mailbox' = [mailbox EXCEPT ![j] = MailboxAfterPop(@)]
  /\ mailboxTTL' = [mailboxTTL EXCEPT ![j] = @ /\ mailbox'[j] # << >>]
  /\ gateway' = [gateway EXCEPT ![j].pc = "done", ![j].waited = "job",
                   ![j].job = Head(mailbox[j]),
                   ![j].reply = ScreenshotReply(Head(mailbox[j]))]
  /\ UNCHANGED <<serviceVars, processVars, rpc, statusStore, taskQueue, waiter, worker, faults, hist>>

\* wait_for_result: BLPOP times out on an empty mailbox (with timeout 0 it
\* blocks until an entry arrives)
GWaitTimeout(j) ==
  /\ gateway[j].pc = "wait"
  /\ gateway[j].timeout > 0
  /\ mailbox[j] = << >>
  /\ gateway' = [gateway EXCEPT ![j].pc = "done", ![j].waited = "nil",
                   ![j].late = (hist[j].pushes > 0),
                   ![j].reply = ScreenshotReply(NoJob)]
  /\ UNCHANGED <<serviceVars, processVars, rpc, statusStore, taskQueue, mailbox, mailboxTTL, waiter, worker, faults, hist>>

\* wait_for_result raises: handle() answers -32603
GWaitRaises(j) ==
  /\ gateway[j].pc = "wait"
  /\ faults < MaxFaults
  /\ faults' = faults + 1
  /\ gateway' = [gateway EXCEPT ![j].pc = "done",
                   ![j].reply = ErrorReply(INTERNAL_ERROR, "internal server error")]
  /\ UNCHANGED <<serviceVars, processVars, rpc, statusStore, taskQueue, mailbox, mailboxTTL, waiter, worker, hist>>

\* ------------------------------------- another caller of wait_for_result
XStart(x, j) ==
  /\ waiter[x].pc = "idle"
  /\ hist[j].created
  /\ waiter' = [waiter EXCEPT ![x].pc = "wait", ![x].job_id = j]
  /\ UNCHANGED <<serviceVars, processVars, rpc, statusStore, taskQueue, mailbox, mailboxTTL, gateway, worker, faults, hist>>

XWaitResult(x) ==
  LET j == waiter[x].job_id IN
  /\ waiter[x].pc = "wait"
  /\ mailbox[j] # << >>
  /\ mailbox' = [mailbox EXCEPT ![j] = MailboxAfterPop(@)]
  /\ mailboxTTL' = [mailboxTTL EXCEPT ![j] = @ /\ mailbox'[j] # << >>]
  /\ waiter' = [waiter EXCEPT ![x].pc = "done", ![x].job = Head(mailbox[j])]
  /\ UNCHANGED <<serviceVars, processVars, rpc, statusStore, taskQueue, gateway, worker, faults, hist>>

XWaitTimeout(x) ==
  LET j == waiter[x].job_id IN
  /\ waiter[x].pc = "wait"
  /\ mailbox[j] = << >>
  /\ waiter' = [waiter EXCEPT ![x].pc = "done", ![x].late = (hist[j].pushes > 0)]
  /\ UNCHANGED <<serviceVars, processVars, rpc, statusStore, taskQueue, mailbox, mailboxTTL, gateway, worker, faults, hist>>

\* --------------------------------------------------------- worker actions
\* faulty variant: the worker falls into the except clause after a successful publish
AfterUpdateFallsThrough(wk) ==
  IF wk.call = "processing" THEN [wk EXCEPT !.pc = "render", !.job = NoJob]
  ELSE IF wk.call = "success"
    THEN [wk EXCEPT !.pc = "upd_get", !.call = "failed", !.job = NoJob,
                    !.result = ErrorResult(InternalErrorText)]
  ELSE IdleWorker

\* where Worker.run goes on when update_job_status returns
AfterUpdate(wk) ==
  IF wk.call = "processing" THEN [wk EXCEPT !.pc = "render", !.job = NoJob]
  ELSE IdleWorker

\* where Worker.run goes on when a broker call inside update_job_status raises:
\* in the try block (success) the except Exception clause publishes failed;
\* in the processing call and in the except clauses the loop-level handler sleeps
AfterUpdateRaises(wk) ==
  IF wk.call = "success"
    THEN [wk EXCEPT !.pc = "upd_get", !.call = "failed", !.job = NoJob,
                    !.result = ErrorResult(InternalErrorText)]
    ELSE [IdleWorker EXCEPT !.pc = "sleep"]

\* the status update_job_status writes in each of the worker's calls
CallStatus(call) == call

\* faulty variant: pop_task takes the entry pushed last
WPopLast(w) ==
  /\ worker[w].pc = "pop"
  /\ taskQueue # << >>
  /\ LET t == taskQueue[Len(taskQueue)] IN
       /\ taskQueue' = SubSeq(taskQueue, 1, Len(taskQueue) - 1)
       /\ worker' = [worker EXCEPT ![w] =
            [IdleWorker EXCEPT !.pc = "upd_get", !.job_id = t.job_id,
                               !.params = t.params, !.call = "processing"]]
       /\ hist' = [hist EXCEPT ![t.job_id].dequeued = @ + 1]
  /\ UNCHANGED <<serviceVars, processVars, rpc, statusStore, mailbox, mailboxTTL, gateway, waiter, faults>>

\* pop_task: BLPOP hands the head of the task queue to this worker, then
\* update_job_status(job_id, "processing") is entered
WPop(w) ==
  /\ worker[w].pc = "pop"
  /\ taskQueue # << >>
  /\ LET t == Head(taskQueue) IN
       /\ taskQueue' = QueueAfterPop(taskQueue)
       /\ worker' = [worker EXCEPT ![w] =
            [IdleWorker EXCEPT !.pc = "upd_get", !.job_id = t.job_id,
                               !.params = t.params, !.call = "processing"]]
       /\ hist' = [hist EXCEPT ![t.job_id].dequeued = @ + 1]
  /\ UNCHANGED <<serviceVars, processVars, rpc, statusStore, mailbox, mailboxTTL, gateway, waiter, faults>>

\* pop_task raises: loop-level handler
WPopRaises(w) ==
  /\ worker[w].pc = "pop"
  /\ faults < MaxFaults
  /\ faults' = faults + 1
  /\ worker' = [worker EXCEPT ![w].pc = "sleep"]
  /\ UNCHANGED <<serviceVars, processVars, rpc, statusStore, taskQueue, mailbox, mailboxTTL, gateway, waiter, hist>>

\* faulty variant: the loop-level handler ends run() after the sleep
WSleepEndsLoop(w) ==
  /\ worker[w].pc = "sleep"
  /\ worker' = [worker EXCEPT ![w] = IdleWorker]
  /\ proc' = [proc EXCEPT ![w].main = "stop"]
  /\ UNCHANGED <<serviceVars, rpc, statusStore, taskQueue, mailbox, mailboxTTL, gateway, waiter, faults, hist>>

\* asyncio.sleep(1), then the next iteration
WSleep(w) ==
  /\ worker[w].pc = "sleep"
  /\ worker' = [worker EXCEPT ![w] = IdleWorker]
  /\ UNCHANGED <<serviceVars, processVars, rpc, statusStore, taskQueue, mailbox, mailboxTTL, gateway, waiter, faults, hist>>

\* update_job_status: get_job; a missing key ends the call
WUpdGet(w) ==
  LET wk == worker[w] IN
  /\ wk.pc = "upd_get"
  /\ worker' = [worker EXCEPT ![w] =
       IF ~KeyExists(wk.job_id) THEN AfterUpdate(wk)
       ELSE [wk EXCEPT
               !.job = JobResult(wk.job_id, CallStatus(wk.call), wk.result),
               !.pc = IF IsTerminal(CallStatus(wk.call)) THEN "upd_push" ELSE "upd_set"]]
  /\ UNCHANGED <<serviceVars, processVars, rpc, statusStore, taskQueue, mailbox, mailboxTTL, gateway, waiter, faults, hist>>

\* update_job_status: RPUSH of the full record on the mailbox
WUpdPush(w) ==
  LET wk == worker[w] IN
  /\ wk.pc = "upd_push"
  /\ mailbox' = [mailbox EXCEPT ![wk.job_id] = Append(@, wk.job)]
  /\ worker' = [worker EXCEPT ![w].pc = "upd_expire"]
  /\ hist' = [hist EXCEPT ![wk.job_id].pushes = @ + 1]
  /\ UNCHANGED <<serviceVars, processVars, rpc, statusStore, taskQueue, mailboxTTL, gateway, waiter, faults>>

\* update_job_status: EXPIRE result_key 60 (no effect on a key that is gone)
WUpdExpire(w) ==
  LET wk == worker[w] IN
  /\ wk.pc = "upd_expire"
  /\ mailboxTTL' = [mailboxTTL EXCEPT ![wk.job_id] = (mailbox[wk.job_id] # << >>)]
  /\ worker' = [worker EXCEPT ![w].pc = "upd_set"]
  /\ UNCHANGED <<serviceVars, processVars, rpc, statusStore, taskQueue, mailbox, gateway, waiter, faults, hist>>

\* update_job_status: the image is cleared and _set_result stores the record
WUpdSet(w) ==
  LET wk == worker[w] IN
  /\ wk.pc = "upd_set"
  /\ statusStore' = SetStatusKey(statusStore, StripImage(wk.job))
  /\ worker' = [worker EXCEPT ![w] = AfterUpdate(wk)]
  /\ hist' = [hist EXCEPT ![wk.job_id].statuses = Append(@, wk.job.status)]
  /\ UNCHANGED <<serviceVars, processVars, rpc, taskQueue, mailbox, mailboxTTL, gateway, waiter, faults>>

\* a broker call inside update_job_status raises
WUpdRaises(w) ==
  LET wk == worker[w] IN
  /\ wk.pc \in {"upd_get", "upd_push", "upd_expire", "upd_set"}
  /\ faults < MaxFaults
  /\ faults' = faults + 1
  /\ worker' = [worker EXCEPT ![w] = AfterUpdateRaises(wk)]
  /\ UNCHANGED <<serviceVars, processVars, rpc, statusStore, taskQueue, mailbox, mailboxTTL, gateway, waiter, hist>>

\* faulty variant: the error record of a failed render carries an image too
OutcomeResultKeepsImage(o) ==
  IF o = "ok" THEN ImageResult
  ELSE [ErrorResult(SvcErrorText(o)) EXCEPT !.image = "AAAA"]

\* the result argument of the update that follows each render outcome
OutcomeResult(o) == IF o = "ok" THEN ImageResult ELSE ErrorResult(SvcErrorText(o))

\* ScreenshotService.screenshot returns or raises ScreenshotServiceError;
\* update_job_status(job_id, "success" | "failed", result) is entered
WRender(w, o) ==
  LET wk == worker[w] IN
  /\ wk.pc = "render"
  /\ worker' = [worker EXCEPT ![w] =
       [wk EXCEPT !.pc = "upd_get",
                  !.call = IF o = "ok" THEN "success" ELSE "failed",
                  !.result = OutcomeResult(o)]]
  /\ hist' = [hist EXCEPT ![wk.job_id].rendered = @ + 1, ![wk.job_id].outcome = o]
  /\ UNCHANGED <<serviceVars, processVars, rpc, statusStore, taskQueue, mailbox, mailboxTTL, gateway, waiter, faults>>

\* ------------------------------------------------------------ broker TTLs
\* the status key outlives REDIS_RESULT_TTL_SECONDS since its last SET
EvictStatusKey(j) ==
  /\ KeyExists(j)
  /\ statusStore' = [statusStore EXCEPT ![j] = NoJob]
  /\ UNCHANGED <<serviceVars, processVars, rpc, taskQueue, mailbox, mailboxTTL, gateway, waiter, worker, faults, hist>>

\* the mailbox outlives the 60 s set by EXPIRE
EvictMailbox(j) ==
  /\ mailboxTTL[j]
  /\ mailbox' = [mailbox EXCEPT ![j] = << >>]
  /\ mailboxTTL' = [mailboxTTL EXCEPT ![j] = FALSE]
  /\ UNCHANGED <<serviceVars, processVars, rpc, statusStore, taskQueue, gateway, waiter, worker, faults, hist>>

\* ---------------------------------------------------------- specification
Next ==
  \/ \E j \in Jobs, p \in ScreenshotParams : GInvalidParams(j, p)
  \/ \E j \in Jobs, p \in ScreenshotParams : GSubmit(j, p)
  \/ \E j \in Jobs, p \in ScreenshotParams : GSubmitRaises(j, p)
  \/ \E j \in Jobs : GWaitResult(j)
  \/ \E j \in Jobs : GWaitTimeout(j)
  \/ \E j \in Jobs : GWaitRaises(j)
  \/ \E w \in Workers : WPop(w)
  \/ \E w \in Workers : WPopRaises(w)
  \/ \E w \in Workers : WSleep(w)
  \/ \E w \in Workers : WUpdGet(w)
  \/ \E w \in Workers : WUpdPush(w)
  \/ \E w \in Workers : WUpdExpire(w)
  \/ \E w \in Workers : WUpdSet(w)
  \/ \E w \in Workers : WUpdRaises(w)
  \/ \E w \in Workers, o \in RenderOutcomes : WRender(w, o)
  \/ \E j \in Jobs : EvictStatusKey(j)
  \/ \E j \in Jobs : EvictMailbox(j)

Spec == Init /\ [][Next]_vars

\* the cluster without broker failures, with further callers of
\* wait_for_result on the same job ids
NextWaiters ==
  \/ \E j \in Jobs, p \in ScreenshotParams : GInvalidParams(j, p)
  \/ \E j \in Jobs, p \in ScreenshotParams : GSubmit(j, p)
  \/ \E j \in Jobs : GWaitResult(j)
  \/ \E j \in Jobs : GWaitTimeout(j)
  \/ \E w \in Workers : WPop(w)
  \/ \E w \in Workers : WUpdGet(w)
  \/ \E w \in Workers : WUpdPush(w)
  \/ \E w \in Workers : WUpdExpire(w)
  \/ \E w \in Workers : WUpdSet(w)
  \/ \E w \in Workers, o \in RenderOutcomes : WRender(w, o)
  \/ \E j \in Jobs : EvictStatusKey(j)
  \/ \E j \in Jobs : EvictMailbox(j)
  \/ \E x \in Waiters, j \in Jobs : XStart(x, j)
  \/ \E x \in Waiters : XWaitResult(x)
  \/ \E x \in Waiters : XWaitTimeout(x)

SpecWaiters == Init /\ [][NextWaiters]_vars

\* ------------------------------------------------- RpcHandler.handle calls
\* _handle_get_job_status, _handle_ping, _handle_get_methods: the handlers
\* that return within one step (get_job is one GET)
MethodReply(method, rpc_id, p) ==
  IF method = "ping" THEN ResultResponse(rpc_id, "pong", NoJob, NullResult)
  ELSE IF method = "get_methods" THEN ResultResponse(rpc_id, "methods", NoJob, NullResult)
  ELSE IF p.job_id = 0
    THEN ErrorResponse(rpc_id, INVALID_PARAMS, "missing job_id", {})
  ELSE IF p.job_id \notin Jobs \/ GetJob(p.job_id) = NoJob
    THEN ErrorResponse(rpc_id, JOB_NOT_FOUND, "job not found", {})
  ELSE ResultResponse(rpc_id, "job", GetJob(p.job_id), NullResult)

\* handle(raw) up to its first broker call: an error found before dispatch
\* and the one-step methods end the call, screenshot goes on in the gateway
HandleCall(j, raw, http, body_t) ==
  LET pre == PreDispatch(raw)
      call == [NoCall EXCEPT !.http = http, !.body_t = body_t, !.raw = raw,
                             !.verb = IF http THEN "POST" ELSE "none",
                             !.rpc_id = pre.rpc_id]
  IN
  /\ rpc[j].stage = "none"
  /\ gateway[j].pc = "idle"
  /\ rpc' = [rpc EXCEPT ![j] =
       IF pre.kind = "error"
         THEN [call EXCEPT !.stage = "done",
                 !.response = ErrorResponse(pre.rpc_id, pre.code, pre.message, {})]
       ELSE IF raw.obj.method = "screenshot"
         THEN [call EXCEPT !.stage = "handler"]
       ELSE [call EXCEPT !.stage = "done",
               !.response = MethodReply(raw.obj.method, pre.rpc_id,
                                        ParamsOrEmpty(raw.obj.params))]]
  /\ UNCHANGED <<serviceVars, processVars, statusStore, taskQueue, mailbox, mailboxTTL, gateway, waiter,
                 worker, faults, hist>>

\* a direct call of RpcHandler.handle
Handle(j, raw) == HandleCall(j, raw, FALSE, "none")

\* get_job raises inside _handle_get_job_status: except Exception, -32603
HandleGetJobRaises(j, raw) ==
  LET pre == PreDispatch(raw) IN
  /\ rpc[j].stage = "none"
  /\ gateway[j].pc = "idle"
  /\ pre.kind = "handler"
  /\ raw.obj.method = "get_job_status"
  /\ ParamsOrEmpty(raw.obj.params).job_id # 0
  /\ faults < MaxFaults
  /\ faults' = faults + 1
  /\ rpc' = [rpc EXCEPT ![j] =
       [NoCall EXCEPT !.stage = "done", !.raw = raw, !.rpc_id = pre.rpc_id,
          !.response = ErrorResponse(pre.rpc_id, INTERNAL_ERROR,
                                     "internal server error", {})]]
  /\ UNCHANGED <<serviceVars, processVars, statusStore, taskQueue, mailbox, mailboxTTL, gateway, waiter,
                 worker, hist>>

\* handle_rpc, POST /rpc: a body that is not JSON is answered -32700 at once,
\* any other body is parsed and the value is handed to handle()
HandleRpc(j, body) ==
  IF body.t = "malformed"
    THEN /\ rpc[j].stage = "none"
         /\ gateway[j].pc = "idle"
         /\ rpc' = [rpc EXCEPT ![j] =
              [NoCall EXCEPT !.stage = "done", !.http = TRUE, !.body_t = body.t,
                 !.verb = "POST",
                 !.response = ErrorResponse(PyNone, PARSE_ERROR, "JSON parse failed", {})]]
         /\ UNCHANGED <<serviceVars, processVars, statusStore, taskQueue, mailbox, mailboxTTL, gateway,
                        waiter, worker, faults, hist>>
    ELSE HandleCall(j, HttpPayload(body), TRUE, body.t)

\* handle_rpc lines 37-49: a request on /rpc that is not a POST is answered
\* without a call of handle()
HandleRpcVerb(j, verb) ==
  /\ verb # "POST"
  /\ rpc[j].stage = "none"
  /\ gateway[j].pc = "idle"
  /\ rpc' = [rpc EXCEPT ![j] =
       [NoCall EXCEPT !.stage = "done", !.http = TRUE, !.verb = verb]]
  /\ UNCHANGED <<serviceVars, processVars, statusStore, taskQueue, mailbox, mailboxTTL, gateway,
                 waiter, worker, faults, hist>>

\* the params dict _handle_screenshot validates
ScreenshotArgs(j) == AsScreenshotParams(ParamsOrEmpty(rpc[j].raw.obj.params))

\* _handle_screenshot of a dispatched call
HScreenshotInvalid(j) ==
  rpc[j].stage = "handler" /\ GInvalidParams(j, ScreenshotArgs(j))

HScreenshotSubmit(j) ==
  rpc[j].stage = "handler" /\ GSubmit(j, ScreenshotArgs(j))

HScreenshotSubmitRaises(j) ==
  rpc[j].stage = "handler" /\ GSubmitRaises(j, ScreenshotArgs(j))

\* what handle() returns: the stored response of a call that ended before or
\* in a one-step handler, else lines 80-100 applied to what
\* _handle_screenshot returned or raised
HandleReturn(j) ==
  IF rpc[j].stage # "handler" THEN rpc[j].response
  ELSE IF gateway[j].pc # "done" THEN Pending
  ELSE IF gateway[j].reply.kind = "result"
    THEN ResultResponse(rpc[j].rpc_id, "screenshot", NoJob, gateway[j].reply.result)
  ELSE ErrorResponse(rpc[j].rpc_id, gateway[j].reply.code,
                     gateway[j].reply.message, gateway[j].reply.details)

\* faulty variant: a request that is not a POST is answered 200
HttpReplyAlwaysOk(j) ==
  LET ret == HandleReturn(j) IN
  IF ~rpc[j].http THEN [status |-> 0, body |-> Pending, cors |-> FALSE]
  ELSE IF rpc[j].verb = "OPTIONS"
    THEN [status |-> 204, body |-> NoneReturn, cors |-> TRUE]
  ELSE IF rpc[j].verb # "POST"
    THEN [status |-> 200, cors |-> FALSE,
          body |-> ErrorResponse(PyNone, INVALID_REQUEST, "only POST is supported", {})]
  ELSE IF ret.kind = "pending" THEN [status |-> 0, body |-> Pending, cors |-> FALSE]
  ELSE IF ret.kind = "None" THEN [status |-> 204, body |-> NoneReturn, cors |-> FALSE]
  ELSE IF ret.kind = "raises" THEN [status |-> 500, body |-> Raised, cors |-> FALSE]
  ELSE [status |-> 200, body |-> ret, cors |-> FALSE]

\* handle_rpc: OPTIONS is answered 204 with the Access-Control-Allow-*
\* headers (cors), another method that is not POST 405 with a -32600 body;
\* lines 77-84: 204 without body when handle() returned None, else
\* 200 with the response; an exception out of handle() is the server's 500
HttpReply(j) ==
  LET ret == HandleReturn(j) IN
  IF ~rpc[j].http THEN [status |-> 0, body |-> Pending, cors |-> FALSE]
  ELSE IF rpc[j].verb = "OPTIONS"
    THEN [status |-> 204, body |-> NoneReturn, cors |-> TRUE]
  ELSE IF rpc[j].verb # "POST"
    THEN [status |-> 405, cors |-> FALSE,
          body |-> ErrorResponse(PyNone, INVALID_REQUEST, "only POST is supported", {})]
  ELSE IF ret.kind = "pending" THEN [status |-> 0, body |-> Pending, cors |-> FALSE]
  ELSE IF ret.kind = "None" THEN [status |-> 204, body |-> NoneReturn, cors |-> FALSE]
  ELSE IF ret.kind = "raises" THEN [status |-> 500, body |-> Raised, cors |-> FALSE]
  ELSE [status |-> 200, body |-> ret, cors |-> FALSE]

\* ---------------------------------------------------------- request inputs
TimeoutInputs ==
  {MIN_TIMEOUT_MS - 1, MIN_TIMEOUT_MS, 1999, MAX_TIMEOUT_MS,
   MAX_TIMEOUT_MS + 1}

\* envelopes that vary jsonrpc, method and id, and the type of params
EnvelopeInputs ==
  {Envelope(v, m, ParamsAbsent, id) :
     v \in {"absent", "2.0", "1.0"}, m \in {"absent", "ping", "nope"},
     id \in IdInputs}
    \cup {Envelope("2.0", "ping", ParamsArray, id) : id \in IdInputs}

\* well-formed envelopes that vary method, params and id
MethodIds == {IdAbsent, IdStr("abc"), IdInt(7)}
MethodInputs ==
  {Envelope("2.0", "screenshot", p, id) :
     p \in {ParamsAbsent} \cup
           {ParamsDict(h, MAX_TIMEOUT_MS, 0) : h \in {"absent", " ", "<p>a</p>"}},
     id \in MethodIds}
    \cup {Envelope("2.0", "screenshot", ParamsDict(h, t, 0), IdInt(7)) :
            h \in {"absent", "<p>a</p>"}, t \in TimeoutInputs}
    \cup {Envelope("2.0", "get_job_status", p, id) :
            p \in {ParamsAbsent} \cup
                  {ParamsDict("absent", MAX_TIMEOUT_MS, k) : k \in Jobs \cup {UnknownJob}},
            id \in MethodIds}
    \cup {Envelope("2.0", m, ParamsAbsent, id) :
            m \in {"ping", "get_methods"}, id \in MethodIds}

\* envelopes sent as JSON text
TextInputs ==
  {Envelope("2.0", m, ParamsAbsent, id) : m \in {"ping", "nope"}, id \in IdInputs}

\* arguments of a direct handle() call: a dict, or JSON text as str or bytes
RawInputs ==
  {Raw("dict", "object", e) : e \in EnvelopeInputs \cup MethodInputs}
    \cup {Raw(py, "object", e) : py \in {"str", "bytes"}, e \in TextInputs}
    \cup {Raw(py, t, NoEnvelope) :
            py \in {"str", "bytes"},
            t \in {"malformed", "array", "number", "null", "string"}}

\* bodies of POST /rpc
BodyInputs ==
  {Body(t, NoEnvelope) : t \in {"malformed", "array", "number", "null", "string"}}
    \cup {Body(t, e) : t \in {"object", "string_json"}, e \in TextInputs}

\* a plain screenshot call
PlainInputs ==
  {Raw("dict", "object",
       Envelope("2.0", "screenshot", ParamsDict("<p>a</p>", MAX_TIMEOUT_MS, 0),
                IdInt(7)))}

\* the handlers whose call is drawn from all the inputs above; the calls of
\* the other handlers are plain screenshot calls
Varied == {1}
RawInputsOf(j) == IF j \in Varied THEN RawInputs ELSE PlainInputs
BodyInputsOf(j) == IF j \in Varied THEN BodyInputs ELSE {}

\* HTTP methods of requests on /rpc other than POST
VerbInputs == {"OPTIONS", "GET", "DELETE"}
VerbInputsOf(j) == IF j \in Varied THEN VerbInputs ELSE {}

\* the gateway with its JSON-RPC front, the workers and the broker; of the
\* broker calls only those of the gateway may raise
NextRpc ==
  \/ \E j \in Jobs : \E raw \in RawInputsOf(j) : Handle(j, raw)
  \/ \E j \in Jobs : \E raw \in RawInputsOf(j) : HandleGetJobRaises(j, raw)
  \/ \E j \in Jobs : \E body \in BodyInputsOf(j) : HandleRpc(j, body)
  \/ \E j \in Jobs : \E verb \in VerbInputsOf(j) : HandleRpcVerb(j, verb)
  \/ \E j \in Jobs : HScreenshotInvalid(j)
  \/ \E j \in Jobs : HScreenshotSubmit(j)
  \/ \E j \in Jobs : HScreenshotSubmitRaises(j)
  \/ \E j \in Jobs : GWaitResult(j)
  \/ \E j \in Jobs : GWaitTimeout(j)
  \/ \E j \in Jobs : GWaitRaises(j)
  \/ \E w \in Workers : WPop(w)
  \/ \E w \in Workers : WUpdGet(w)
  \/ \E w \in Workers : WUpdPush(w)
  \/ \E w \in Workers : WUpdExpire(w)
  \/ \E w \in Workers : WUpdSet(w)
  \/ \E w \in Workers, o \in {"ok", "SELECTOR_NOT_FOUND"} : WRender(w, o)
  \/ \E j \in Jobs : EvictStatusKey(j)
  \/ \E j \in Jobs : EvictMailbox(j)

SpecRpc == Init /\ [][NextRpc]_vars

\* the steps the screenshot handler of job id j takes by itself
HandlerStep(j) ==
  \/ HScreenshotInvalid(j)
  \/ HScreenshotSubmit(j)
  \/ GWaitResult(j)
  \/ GWaitTimeout(j)

\* the event loop of the gateway runs every handler, and a BLPOP with a
\* positive timeout returns; no worker has to take a step
SpecHandler ==
  Init /\ [][NextRpc]_vars /\ \A j \in Jobs : WF_vars(HandlerStep(j))

\* ------------------------------------------- ScreenshotService.screenshot
\* ScreenshotService.start: the browser is launched
ServiceStart ==
  /\ ~browser
  /\ browser' = TRUE
  /\ UNCHANGED <<render, permits, image, clusterVars, processVars>>

\* screenshot(params) is entered: BROWSER_ERROR without a browser, else the
\* call goes for the semaphore
Screenshot(c, p) ==
  /\ render[c].pc = "idle"
  /\ render' = [render EXCEPT ![c] =
       IF browser
         THEN [NoRender EXCEPT !.pc = "acquire", !.params = p]
         ELSE [NoRender EXCEPT !.pc = "done", !.params = p,
                               !.exc = "BROWSER_ERROR", !.cause = "no_browser",
                               !.failed_at = "idle", !.outcome = "raised"]]
  /\ UNCHANGED <<permits, browser, image, clusterVars, processVars>>

\* async with self._semaphore
Acquire(c) ==
  /\ render[c].pc = "acquire"
  /\ permits > 0
  /\ permits' = permits - 1
  /\ render' = [render EXCEPT ![c].pc = "new_context"]
  /\ UNCHANGED <<browser, image, clusterVars, processVars>>

\* _create_context: browser.new_context(..., java_script_enabled=False)
NewContext(c) ==
  /\ render[c].pc = "new_context"
  /\ render' = [render EXCEPT ![c].pc = "route", ![c].context = "open",
                              ![c].js = FALSE]
  /\ UNCHANGED <<permits, browser, image, clusterVars, processVars>>

\* _create_context: context.route("**/*", hook), then the context is
\* returned and bound to the local variable of screenshot()
RouteInstall(c) ==
  /\ render[c].pc = "route"
  /\ render' = [render EXCEPT ![c].pc = "new_page", ![c].routed = TRUE,
                              ![c].ctxvar = TRUE]
  /\ UNCHANGED <<permits, browser, image, clusterVars, processVars>>

\* context.new_page()
NewPage(c) ==
  /\ render[c].pc = "new_page"
  /\ render' = [render EXCEPT ![c].pc = "set_content", ![c].page = TRUE]
  /\ UNCHANGED <<permits, browser, image, clusterVars, processVars>>

\* page.set_content: the document loads, and each of its requests goes
\* through the hook of the context if one is installed
SetContent(c) ==
  LET r == render[c] IN
  /\ r.pc = "set_content"
  /\ render' = [render EXCEPT
       ![c].pc = IF Truthy(r.params.wait_for_selector)
                   THEN "wait_for_selector" ELSE "capture",
       ![c].requests =
          {[url |-> u,
            decision |-> IF r.routed THEN RouteHook(u) ELSE "continue"] :
             u \in r.params.urls}]
  /\ UNCHANGED <<permits, browser, image, clusterVars, processVars>>

\* page.wait_for_selector: a selector that never matches times out and
\* becomes SELECTOR_NOT_FOUND
WaitForSelector(c) ==
  LET r == render[c] IN
  /\ r.pc = "wait_for_selector"
  /\ render' = [render EXCEPT ![c] =
       IF r.params.wait_for_selector = "#miss"
         THEN [r EXCEPT !.pc = "finally", !.exc = "SELECTOR_NOT_FOUND",
                        !.cause = "timeout", !.failed_at = r.pc]
         ELSE [r EXCEPT !.pc = "capture"]]
  /\ UNCHANGED <<permits, browser, image, clusterVars, processVars>>

\* the capture cascade
CaptureStep(c) ==
  LET r == render[c] IN
  /\ r.pc = "capture"
  /\ render' = [render EXCEPT ![c].pc = "finally",
                              ![c].shot = Capture(r.params).shot,
                              ![c].queried = Capture(r.params).queried,
                              ![c].exc = Capture(r.params).exc,
                              ![c].cause =
                                 IF Capture(r.params).exc = "none"
                                   THEN "none" ELSE "no_element",
                              ![c].failed_at =
                                 IF Capture(r.params).exc = "none"
                                   THEN "none" ELSE r.pc]
  /\ UNCHANGED <<permits, browser, image, clusterVars, processVars>>

\* faulty variant: every engine timeout becomes TIMEOUT
EngineErrorTimeoutEverywhere(pc, kind) ==
  IF kind = "timeout" THEN "TIMEOUT" ELSE "SCREENSHOT_FAILED"

\* the except clauses of _render_and_capture and screenshot(): the error a
\* failing engine call leaves screenshot() with
EngineError(pc, kind) ==
  IF kind = "timeout"
    THEN IF pc = "wait_for_selector" THEN "SELECTOR_NOT_FOUND" ELSE "TIMEOUT"
    ELSE "SCREENSHOT_FAILED"

\* an awaited engine call raises PlaywrightTimeoutError or another exception
StepRaises(c, kind) ==
  LET r == render[c] IN
  /\ r.pc \in {"new_context", "route", "new_page", "set_content",
               "wait_for_selector", "capture"}
  /\ render' = [render EXCEPT ![c].pc = "finally",
                              ![c].exc = EngineError(r.pc, kind),
                              ![c].cause = kind, ![c].failed_at = r.pc,
                              ![c].queried =
                                 (r.pc = "capture" /\ Capture(r.params).queried)]
  /\ UNCHANGED <<permits, browser, image, clusterVars, processVars>>

\* faulty variant: the permit is given back only when the call returns
FinallyKeepsPermitOnError(c) ==
  LET r == render[c] IN
  /\ r.pc = "finally"
  /\ render' = [render EXCEPT
       ![c].pc = "done",
       ![c].context = IF r.ctxvar THEN "closed" ELSE r.context,
       ![c].outcome = IF r.exc = "none" THEN "returned" ELSE "raised"]
  /\ permits' = IF r.exc = "none" THEN permits + 1 ELSE permits
  /\ UNCHANGED <<browser, image, clusterVars, processVars>>

\* the finally clause closes the context bound to the local variable, the
\* semaphore is released, and screenshot() returns the result or raises
Finally(c) ==
  LET r == render[c] IN
  /\ r.pc = "finally"
  /\ render' = [render EXCEPT
       ![c].pc = "done",
       ![c].context = IF r.ctxvar THEN "closed" ELSE r.context,
       ![c].outcome = IF r.exc = "none" THEN "returned" ELSE "raised"]
  /\ permits' = permits + 1
  /\ UNCHANGED <<browser, image, clusterVars, processVars>>

\* the first call is drawn from all the params, the others are plain
RenderInputsOf(c) == IF c = 1 THEN RenderParams ELSE {PlainRenderParams}

\* concurrent screenshot() calls on one ScreenshotService
NextRender ==
  \/ ServiceStart
  \/ \E c \in Renders : \E p \in RenderInputsOf(c) : Screenshot(c, p)
  \/ \E c \in Renders : Acquire(c)
  \/ \E c \in Renders : NewContext(c)
  \/ \E c \in Renders : RouteInstall(c)
  \/ \E c \in Renders : NewPage(c)
  \/ \E c \in Renders : SetContent(c)
  \/ \E c \in Renders : WaitForSelector(c)
  \/ \E c \in Renders : CaptureStep(c)
  \/ \E c \in Renders, kind \in {"timeout", "error"} : StepRaises(c, kind)
  \/ \E c \in Renders : Finally(c)

SpecRender == Init /\ [][NextRender]_vars

\* --------------------------------------- ScreenshotService._build_result
\* _build_result: the dimensions are parsed out of the bytes, size_bytes is
\* their number
BuildResult ==
  /\ image.pc = "input"
  /\ image' = [image EXCEPT
       !.pc = "built",
       !.width = ParseImageDimensions(image.data, image.image_type).width,
       !.height = ParseImageDimensions(image.data, image.image_type).height,
       !.size_bytes = Len(image.data)]
  /\ UNCHANGED <<render, permits, browser, clusterVars, processVars>>

InitImage == InitCluster /\ image \in ImageInputs

NextImage == BuildResult

SpecImage == InitImage /\ [][NextImage]_vars

\* ------------------------------------------------- Worker.run and main()
\* a signal handler runs: setattr(worker, "should_exit", True)
Signal(w) ==
  /\ proc[w].main = "run"
  /\ ~proc[w].should_exit
  /\ proc' = [proc EXCEPT ![w].should_exit = TRUE]
  /\ UNCHANGED <<clusterVars, serviceVars>>

\* faulty variant: the loop never looks at the flag
WLoopIgnoresFlag(w) ==
  /\ proc[w].main = "run" /\ worker[w].pc = "pop" /\ ~proc[w].polling
  /\ proc' = [proc EXCEPT ![w].polling = TRUE]
  /\ UNCHANGED <<clusterVars, serviceVars>>

\* faulty variant: the render runs as a task of its own and the loop goes on
\* to the next pop_task while it is in progress
WLoopWhileRendering(w) ==
  /\ proc[w].main = "run" /\ worker[w].pc \in {"pop", "render"}
  /\ ~proc[w].polling
  /\ ~proc[w].should_exit
  /\ proc' = [proc EXCEPT ![w].polling = TRUE]
  /\ UNCHANGED <<clusterVars, serviceVars>>

\* while not self.should_exit: the test passes and pop_task is called
WLoop(w) ==
  /\ proc[w].main = "run" /\ worker[w].pc = "pop" /\ ~proc[w].polling
  /\ ~proc[w].should_exit
  /\ proc' = [proc EXCEPT ![w].polling = TRUE]
  /\ UNCHANGED <<clusterVars, serviceVars>>

\* the test fails: run() returns and main() goes into its finally clause
WLeaveRun(w) ==
  /\ proc[w].main = "run" /\ worker[w].pc = "pop" /\ ~proc[w].polling
  /\ proc[w].should_exit
  /\ proc' = [proc EXCEPT ![w].main = "stop"]
  /\ UNCHANGED <<clusterVars, serviceVars>>

\* the pop_task in flight returns the head of the task queue, then
\* update_job_status(job_id, "processing") is entered
WPopTask(w) ==
  /\ proc[w].polling
  /\ worker[w].pc = "pop"
  /\ taskQueue # << >>
  /\ LET t == Head(taskQueue) IN
       /\ taskQueue' = QueueAfterPop(taskQueue)
       /\ worker' = [worker EXCEPT ![w] =
            [IdleWorker EXCEPT !.pc = "upd_get", !.job_id = t.job_id,
                               !.params = t.params, !.call = "processing"]]
       /\ hist' = [hist EXCEPT ![t.job_id].dequeued = @ + 1]
  /\ proc' = [proc EXCEPT ![w].polling = FALSE]
  /\ UNCHANGED <<serviceVars, rpc, statusStore, mailbox, mailboxTTL, gateway, waiter, faults>>

\* the pop_task in flight times out on an empty queue: continue
WPopNone(w) ==
  /\ proc[w].polling
  /\ worker[w].pc = "pop"
  /\ taskQueue = << >>
  /\ proc' = [proc EXCEPT ![w].polling = FALSE]
  /\ UNCHANGED <<clusterVars, serviceVars>>

\* the pop_task in flight raises: loop-level handler
WPopTaskRaises(w) ==
  /\ proc[w].polling
  /\ worker[w].pc = "pop"
  /\ faults < MaxFaults
  /\ faults' = faults + 1
  /\ worker' = [worker EXCEPT ![w].pc = "sleep"]
  /\ proc' = [proc EXCEPT ![w].polling = FALSE]
  /\ UNCHANGED <<serviceVars, rpc, statusStore, taskQueue, mailbox, mailboxTTL, gateway, waiter, hist>>

\* the try block raises an exception that is not a ScreenshotServiceError
\* (the ValidationError of model_validate, or one that escapes screenshot()):
\* update_job_status(job_id, "failed", error = "internal error: <type>")
WRenderRaises(w) ==
  LET wk == worker[w] IN
  /\ wk.pc = "render"
  /\ worker' = [worker EXCEPT ![w] =
       [wk EXCEPT !.pc = "upd_get", !.call = "failed",
                  !.result = ErrorResult(InternalErrorText)]]
  /\ hist' = [hist EXCEPT ![wk.job_id].rendered = @ + 1,
                          ![wk.job_id].outcome = "exception"]
  /\ UNCHANGED <<serviceVars, processVars, rpc, statusStore, taskQueue, mailbox, mailboxTTL, gateway, waiter, faults>>

\* worker.stop(): service.stop() closes the browser
WStopService(w) ==
  /\ proc[w].main = "stop"
  /\ proc' = [proc EXCEPT ![w].main = "disconnect", ![w].browser_open = FALSE]
  /\ UNCHANGED <<clusterVars, serviceVars>>

\* worker.stop(): task_manager.disconnect(), then main() returns
WDisconnect(w) ==
  /\ proc[w].main = "disconnect"
  /\ proc' = [proc EXCEPT ![w].main = "exited", ![w].connected = FALSE]
  /\ UNCHANGED <<clusterVars, serviceVars>>

\* the render outcomes of the worker processes: screenshot() returns or
\* raises a ScreenshotServiceError
WorkerOutcomes == {"ok", "TIMEOUT"}

\* the steps worker w takes by itself
WorkerStep(w) ==
  \/ WLoop(w)
  \/ WLeaveRun(w)
  \/ WPopTask(w)
  \/ WPopNone(w)
  \/ WSleep(w)
  \/ WUpdGet(w)
  \/ WUpdPush(w)
  \/ WUpdExpire(w)
  \/ WUpdSet(w)
  \/ \E o \in WorkerOutcomes : WRender(w, o)
  \/ WRenderRaises(w)
  \/ WStopService(w)
  \/ WDisconnect(w)

\* worker processes from start to exit, with the submissions of the
\* gateways, broker calls that raise, TTL eviction and shutdown signals
NextWorker ==
  \/ \E j \in Jobs, p \in ScreenshotParams : GSubmit(j, p)
  \/ \E w \in Workers : Signal(w)
  \/ \E w \in Workers : WLoop(w)
  \/ \E w \in Workers : WLeaveRun(w)
  \/ \E w \in Workers : WPopTask(w)
  \/ \E w \in Workers : WPopNone(w)
  \/ \E w \in Workers : WPopTaskRaises(w)
  \/ \E w \in Workers : WSleep(w)
  \/ \E w \in Workers : WUpdGet(w)
  \/ \E w \in Workers : WUpdPush(w)
  \/ \E w \in Workers : WUpdExpire(w)
  \/ \E w \in Workers : WUpdSet(w)
  \/ \E w \in Workers : WUpdRaises(w)
  \/ \E w \in Workers, o \in WorkerOutcomes : WRender(w, o)
  \/ \E w \in Workers : WRenderRaises(w)
  \/ \E w \in Workers : WStopService(w)
  \/ \E w \in Workers : WDisconnect(w)
  \/ \E j \in Jobs : EvictStatusKey(j)

\* a worker process is scheduled again and again: an await that can
\* complete does complete (BLPOP returns within its timeout, every engine
\* call is bounded by a timeout, asyncio.sleep(1) ends)
SpecWorker ==
  Init /\ [][NextWorker]_vars /\ \A w \in Workers : WF_vars(WorkerStep(w))

\* ================================================================ claims
InQueue(j) == \E i \in 1..Len(taskQueue) : taskQueue[i].job_id = j

\* the handler of job id j has returned from submit_task
Submitted(j) == gateway[j].params # NoParams

\* C1: submit_task writes the pending status key and the {job_id, params}
\* queue entry in one step: in no state has exactly one of the two writes
\* happened, whoever sees one of them finds the other done, the entry carries
\* the call's job_id and params, and the key read right after submit_task
\* returns (the state the submit step ends in) is there.
C1_AtomicSubmit ==
  \A j \in Jobs :
    /\ hist[j].created = hist[j].enqueued
    /\ Submitted(j) => hist[j].created /\ hist[j].statuses[1] = "pending"
    /\ KeyExists(j) => hist[j].enqueued
    /\ \A i \in 1..Len(taskQueue) :
         taskQueue[i].job_id = j =>
           hist[j].created /\ taskQueue[i].params = gateway[j].params

\* a handler is back from submit_task: its key and its queue entry are both there
C1_Witness ==
  \E j \in Jobs :
    /\ gateway[j].pc = "wait"
    /\ KeyExists(j) /\ statusStore[j].status = "pending"
    /\ InQueue(j)

\* C2 as stated: at every dequeue the status key of the dequeued job exists,
\* broker TTL eviction included.
C2_KeyPresentAtDequeue ==
  [][\A j \in Jobs : hist'[j].dequeued > hist[j].dequeued => KeyExists(j)]_vars

\* C2 amended: the status key of every dequeued job was written, as pending,
\* in the transaction that queued the task, and nothing but broker TTL eviction
\* ever removes a status key; so at the dequeue the key exists unless its TTL
\* lapsed while the task waited in the queue.
C2_KeyWrittenBeforeDequeue ==
  /\ [](\A j \in Jobs :
          hist[j].dequeued > 0 =>
            hist[j].created /\ hist[j].statuses # << >> /\ hist[j].statuses[1] = "pending")
  /\ [][\A j \in Jobs : (KeyExists(j) /\ ~KeyExists(j)') => EvictStatusKey(j)]_vars

\* a worker has just been handed a task and the status key of its job is there
C2_Witness ==
  \E w \in Workers :
    /\ worker[w].pc = "upd_get" /\ worker[w].call = "processing"
    /\ hist[worker[w].job_id].dequeued = 1
    /\ KeyExists(worker[w].job_id)

\* wait_for_result calls on job id j that returned a record
Received(j) ==
  (IF gateway[j].job # NoJob THEN 1 ELSE 0)
    + Cardinality({x \in Waiters : waiter[x].job_id = j /\ waiter[x].job # NoJob})

\* the record the worker publishes for job id j after the render outcome o
Published(j, o) ==
  JobResult(j, IF o = "ok" THEN "success" ELSE "failed", OutcomeResult(o))

\* C3: a published terminal record is returned by at most one wait_for_result
\* call. With one publication and two waiters on the job id (the handler and
\* one more caller, in either order), no two of them hold a record, the one
\* that holds it has the full record as published (image included), and a
\* waiter that returned nil after the publication, the mailbox not having
\* been evicted, means the other waiter holds the record.
C3_SingleDelivery ==
  \A j \in Jobs :
    /\ Received(j) + Len(mailbox[j]) <= hist[j].pushes
    /\ hist[j].pushes = 1 => Received(j) <= 1
    /\ gateway[j].job # NoJob => gateway[j].job = Published(j, hist[j].outcome)
    /\ \A x \in Waiters :
         (waiter[x].job_id = j /\ waiter[x].job # NoJob) =>
           waiter[x].job = Published(j, hist[j].outcome)
    /\ ( /\ hist[j].pushes = 1
         /\ Received(j) + Len(mailbox[j]) = 1
         /\ \/ gateway[j].late
            \/ \E x \in Waiters : waiter[x].job_id = j /\ waiter[x].late )
       => Received(j) = 1

\* one publication, the handler holds the record with its image, and the
\* second waiter on the same job id came back with nil after the publication
C3_Witness ==
  \E j \in Jobs, x \in Waiters :
    /\ hist[j].pushes = 1
    /\ gateway[j].job.status = "success" /\ gateway[j].job.result.image = "AAAA"
    /\ waiter[x].job_id = j /\ waiter[x].pc = "done"
    /\ waiter[x].job = NoJob /\ waiter[x].late

\* C4: the record under a status key never carries an image: its result is
\* absent or has image null, so get_job and get_job_status never return a
\* non-null image, also right after update_job_status(job_id, success, r)
\* with r.image set.
C4_NoImageInStatusStore ==
  \A j \in Jobs :
    /\ GetJob(j).result.isnull \/ GetJob(j).result.image = "null"
    /\ (GetJob(j).status = "success") =>
         /\ ~GetJob(j).result.isnull
         /\ [GetJob(j).result EXCEPT !.image = "AAAA"] = ImageResult

\* update_job_status(job_id, success, r) with r.image set has completed: the
\* image went out on the mailbox and the stored record has the rest of r
C4_Witness ==
  \E j \in Jobs :
    /\ GetJob(j).status = "success"
    /\ GetJob(j).result.image_type = "png" /\ GetJob(j).result.image = "null"
    /\ mailbox[j] # << >> /\ Head(mailbox[j]).result.image = "AAAA"
    /\ \A w \in Workers : worker[w].job_id # j

\* no worker is working on job id j
Released(j) == \A w \in Workers : worker[w].job_id # j

\* C5 as stated: for every job a worker dequeued, that worker pushes exactly
\* one entry on result_queue:<job_id>: never a second one, and one by the time
\* it lets go of the job, broker calls that raise included.
C5_ExactlyOnePush ==
  \A j \in Jobs :
    /\ hist[j].pushes <= 1
    /\ (hist[j].dequeued > 0 /\ Released(j)) => hist[j].pushes = 1

\* the part of C5 that a finished job has at most one entry pushed
C5_AtMostOnePush == \A j \in Jobs : hist[j].pushes <= 1

IsPrefix(s, t) == Len(s) <= Len(t) /\ \A i \in 1..Len(s) : s[i] = t[i]

\* C6: the status values stored under the status key of a job id, in the
\* order of the writes, are a prefix of pending, processing, success or of
\* pending, processing, failed: no write goes backward and nothing is written
\* after success or failed.
C6_StatusSequence ==
  \A j \in Jobs :
    \/ IsPrefix(hist[j].statuses, <<"pending", "processing", "success">>)
    \/ IsPrefix(hist[j].statuses, <<"pending", "processing", "failed">>)

\* a job went through all three writes although the broker raised inside
\* update_job_status(job_id, success, r) and the worker published failed
C6_Witness ==
  \E j \in Jobs :
    /\ hist[j].statuses = <<"pending", "processing", "failed">>
    /\ hist[j].outcome = "ok"
    /\ Released(j)

\* C7: with several workers on one broker, a submitted job is handed out by
\* pop_task at most once, to one worker, is rendered at most once, and is
\* never on the task queue again once it has been dequeued, whatever the
\* outcome of its render and of the broker calls that follow.
C7_ExclusiveDequeue ==
  \A j \in Jobs :
    /\ hist[j].dequeued <= 1
    /\ hist[j].rendered <= hist[j].dequeued
    /\ hist[j].dequeued > 0 => ~InQueue(j)
    /\ Cardinality({w \in Workers : worker[w].job_id = j}) <= 1
    /\ Cardinality({i \in 1..Len(taskQueue) : taskQueue[i].job_id = j}) <= 1

\* a job was rendered once, its render failed, the worker let go of it, and
\* the other worker is idle with nothing of that job left to pop
C7_Witness ==
  \E j \in Jobs :
    /\ hist[j].dequeued = 1 /\ hist[j].rendered = 1
    /\ hist[j].outcome \in SvcErrors
    /\ hist[j].statuses = <<"pending", "processing", "failed">>
    /\ \A w \in Workers : worker[w].pc = "pop"
    /\ ~InQueue(j)

\* C8 as stated: when the render of a job failed with a worker-side code, the
\* JSON-RPC error the screenshot caller receives carries that code
\* (SELECTOR_NOT_FOUND -32003, TIMEOUT -32004, SCREENSHOT_FAILED -32001).
C8_WorkerCodeReachesClient ==
  \A j \in Jobs :
    ( /\ gateway[j].waited = "job"
      /\ hist[j].outcome \in SvcErrors
      /\ gateway[j].job = Published(j, hist[j].outcome) )
    => /\ gateway[j].reply.kind = "error"
       /\ gateway[j].reply.code = SvcErrorCode(hist[j].outcome)

\* C9: the reply of the screenshot method follows from what wait_for_result
\* returned: nil gives error -32004; a failed record gives error -32001 with
\* the error text the worker reported as message; a success record gives a
\* result reply that is the record's result sub-object (image, image_type,
\* width, height, size_bytes), not the JobResult around it.
C9_ReplyFollowsWaitResult ==
  \A j \in Jobs :
    /\ gateway[j].waited = "nil" =>
         /\ gateway[j].reply.kind = "error"
         /\ gateway[j].reply.code = TIMEOUT
    /\ (gateway[j].waited = "job" /\ gateway[j].job.status = "failed") =>
         /\ gateway[j].reply.kind = "error"
         /\ gateway[j].reply.code = SCREENSHOT_FAILED
         /\ gateway[j].reply.message = gateway[j].job.result.error
         /\ gateway[j].reply.message \in
              {SvcErrorText(hist[j].outcome), InternalErrorText}
    /\ (gateway[j].waited = "job" /\ gateway[j].job.status = "success") =>
         /\ gateway[j].reply.kind = "result"
         /\ gateway[j].reply.result = gateway[j].job.result
         /\ gateway[j].reply.result = ImageResult
    /\ gateway[j].waited = "job" => gateway[j].job.status \in {"success", "failed"}

\* the two handlers have replied, one with the result sub-object of a success
\* record and one with -32001 and the worker's error text
C9_Witness ==
  \E j, k \in Jobs :
    /\ gateway[j].waited = "job" /\ gateway[j].job.status = "success"
    /\ gateway[j].reply.kind = "result" /\ gateway[j].reply.result.image = "AAAA"
    /\ gateway[k].waited = "job" /\ gateway[k].job.status = "failed"
    /\ gateway[k].reply.code = SCREENSHOT_FAILED

\* C10 as stated, in the form a finite run decides: when the handler's wait
\* elapsed before the publication, the reply is error -32004, the record
\* published later reaches no screenshot caller, and a mailbox that the
\* worker has finished with carries its expiry, so that the broker evicts it
\* (a list without expiry that nobody pops stays for ever).
C10_LateResultSelfExpires ==
  \A j \in Jobs :
    /\ gateway[j].job # NoJob => gateway[j].job.job_id = j
    /\ gateway[j].waited = "nil" =>
         /\ gateway[j].reply.kind = "error" /\ gateway[j].reply.code = TIMEOUT
         /\ gateway[j].job = NoJob
         /\ (mailbox[j] # << >> /\ Released(j)) => mailboxTTL[j]

\* ----------------------------------------------------- claims on handle()
\* handle() was called for handler j and has returned (or raised)
Returned(j) == HandleReturn(j).kind # "pending"

\* the argument of handler j's call decodes to a JSON object, Request(j)
Decoded(j) ==
  \/ rpc[j].raw.py = "dict"
  \/ rpc[j].raw.py \in {"str", "bytes"} /\ rpc[j].raw.t = "object"
Request(j) == rpc[j].raw.obj

\* the call of handler j reached _handle_screenshot
InScreenshot(j) == rpc[j].stage = "handler"

\* C11 as stated: the timeout passed to wait_for_result, in seconds, is
\* timeout_ms / 1000 + 5 exactly.
C11_WaitIsExactQuotient ==
  \A j \in Jobs :
    Submitted(j) => 1000 * gateway[j].timeout = gateway[j].params.timeout_ms + 5000

\* C11 amended: for every valid timeout_ms in [0, 120000] the timeout passed
\* to wait_for_result is the whole number of seconds in timeout_ms plus 5
\* (timeout_ms / 1000 rounded down, plus 5): between 5 and 125, and up to one
\* second less than timeout_ms / 1000 + 5 when timeout_ms is not a multiple of
\* 1000.
C11_WaitIsWholeSecondsPlusFive ==
  \A j \in Jobs :
    Submitted(j) =>
      /\ gateway[j].params.timeout_ms \in MIN_TIMEOUT_MS..MAX_TIMEOUT_MS
      /\ 1000 * (gateway[j].timeout - 5) <= gateway[j].params.timeout_ms
      /\ gateway[j].params.timeout_ms < 1000 * (gateway[j].timeout - 4)
      /\ gateway[j].timeout \in 5..125

\* a handler waits 6 seconds for a job with timeout_ms = 1999, and the other
\* one 125 seconds for a job with timeout_ms = 120000
C11_Witness ==
  \E j, k \in Jobs :
    /\ gateway[j].pc = "wait" /\ gateway[j].params.timeout_ms = 1999
    /\ gateway[j].timeout = 6
    /\ gateway[k].pc = "wait" /\ gateway[k].params.timeout_ms = MAX_TIMEOUT_MS
    /\ gateway[k].timeout = 125

\* C12 as stated: a well-formed request without an id has its handler
\* executed and gets no response body: handle() returns None and POST /rpc
\* answers 204, whether the handler succeeded or the request ended in a
\* JSON-RPC error.
C12_NotificationNoBody ==
  \A j \in Jobs :
    ( /\ Returned(j) /\ Decoded(j)
      /\ EnvelopeValid(Request(j)) /\ Request(j).id.t = "absent" )
    => /\ HandleReturn(j).kind = "None"
       /\ rpc[j].http => HttpReply(j).status = 204

\* C13 as stated: handle() never raises; it returns a response object or None.
C13_HandleNeverRaises ==
  \A j \in Jobs : HandleReturn(j).kind \in {"pending", "None", "response"}

\* C14 as stated: a POST /rpc body that is valid JSON but not an object gets
\* a JSON-RPC error with code -32600.
C14_NonObjectBodyInvalidRequest ==
  \A j \in Jobs :
    ( /\ rpc[j].http /\ Returned(j)
      /\ rpc[j].body_t \in {"array", "number", "string", "string_json", "null"} )
    => /\ HttpReply(j).body.kind = "response"
       /\ HttpReply(j).body.member = "error"
       /\ HttpReply(j).body.code = INVALID_REQUEST

\* response r is a JSON-RPC error with code c
IsError(r, c) == r.kind = "response" /\ r.member = "error" /\ r.code = c

\* the screenshot params of handler j's request fail validation
HtmlFails(j) == Request(j).params.html \in {"absent", "", " "}
TimeoutFails(j) ==
  Request(j).params.timeout_ms < 0 \/ Request(j).params.timeout_ms > 120000

\* C15: request errors are classified in the order of the stages of handle().
\* Text that is not JSON gets -32700 with id null.  For a request object
\* whose id is a string, an integer, null or absent: a jsonrpc member other
\* than "2.0", a missing method or params that is no object gets -32600,
\* whatever the method; else a method outside the registry gets -32601; else
\* screenshot params that fail validation get -32602 with data.details naming
\* exactly the failing fields, and get_job_status gets -32602 without job_id
\* and -32005 when no status key exists for job_id at the time of the call
\* (never written, or expired), the stored record otherwise.
C15_ClassifiedNow(j) ==
  LET r == HandleReturn(j)
      obj == Request(j)
  IN
  /\ ( \/ rpc[j].raw.py \in {"str", "bytes"} /\ rpc[j].raw.t = "malformed"
       \/ rpc[j].http /\ rpc[j].body_t = "malformed" )
     => IsError(r, PARSE_ERROR) /\ r.id = PyNone
  /\ (Decoded(j) /\ IdValid(obj.id)) =>
       IF obj.jsonrpc \notin {"absent", "2.0"} \/ obj.method = "absent"
            \/ obj.params.t = "array"
         THEN IsError(r, INVALID_REQUEST)
       ELSE IF obj.method \notin {"screenshot", "get_job_status", "ping", "get_methods"}
         THEN IsError(r, METHOD_NOT_FOUND)
       ELSE IF obj.method = "screenshot" /\ (HtmlFails(j) \/ TimeoutFails(j))
         THEN /\ IsError(r, INVALID_PARAMS)
              /\ HtmlFails(j) <=> "html" \in r.details
              /\ TimeoutFails(j) <=> "timeout_ms" \in r.details
       ELSE IF obj.method = "get_job_status" /\ obj.params.job_id = 0
         THEN IsError(r, INVALID_PARAMS)
       ELSE IF obj.method = "get_job_status" /\ obj.params.job_id = UnknownJob
         THEN IsError(r, JOB_NOT_FOUND) \/ (faults > 0 /\ IsError(r, INTERNAL_ERROR))
       ELSE ~IsError(r, PARSE_ERROR) /\ ~IsError(r, INVALID_REQUEST)
              /\ ~IsError(r, METHOD_NOT_FOUND)

C16_InvalidParamsLeaveBroker ==
  /\ [](\A j \in Jobs :
          (InScreenshot(j) /\ (HtmlFails(j) \/ TimeoutFails(j))) =>
            /\ ~hist[j].created /\ ~hist[j].enqueued
            /\ ~KeyExists(j) /\ ~InQueue(j) /\ mailbox[j] = << >>
            /\ gateway[j].waited = "no" /\ gateway[j].pc \in {"idle", "done"}
            /\ Returned(j) => IsError(HandleReturn(j), INVALID_PARAMS))
  /\ [][\A j \in Jobs :
          (gateway[j].pc = "idle" /\ gateway'[j].reply.code = INVALID_PARAMS)
            => UNCHANGED <<statusStore, taskQueue, mailbox, mailboxTTL>>]_vars

\* a screenshot request with two failing fields was answered -32602 while
\* the job of the other handler sat in the task queue
C16_Witness ==
  \E j, k \in Jobs :
    /\ IsError(HandleReturn(j), INVALID_PARAMS)
    /\ HandleReturn(j).details = {"html", "timeout_ms"}
    /\ InQueue(k) /\ KeyExists(k) /\ ~KeyExists(j)

QueuePos(q, j) ==
  IF \E i \in 1..Len(q) : q[i].job_id = j
    THEN CHOOSE i \in 1..Len(q) : q[i].job_id = j
    ELSE 0

\* job a's entry is in queue q ahead of job b's
Ahead(q, a, b) ==
  QueuePos(q, a) > 0 /\ QueuePos(q, b) > 0 /\ QueuePos(q, a) < QueuePos(q, b)

\* C18: tasks leave the task queue in submission order, with several
\* handlers and several workers.  A submitted job that no pop_task has
\* returned is in the queue; when submit_task for B runs, every job A
\* submitted before and not yet returned is ahead of B in the queue; an entry
\* ahead of another stays ahead of it until it is returned; and pop_task
\* returns the entry that has no entry ahead of it.  So pop_task never
\* returns B while a job submitted before B has not been returned.
C18_SubmissionOrder ==
  /\ [](\A a \in Jobs : (hist[a].enqueued /\ hist[a].dequeued = 0) => InQueue(a))
  /\ [][\A a, b \in Jobs :
          /\ ( /\ ~hist[b].enqueued /\ hist'[b].enqueued
               /\ hist[a].enqueued /\ hist[a].dequeued = 0 )
             => Ahead(taskQueue', a, b)
          /\ Ahead(taskQueue, a, b) =>
               /\ hist'[b].dequeued = hist[b].dequeued
               /\ InQueue(b)'
               /\ hist'[a].dequeued = hist[a].dequeued => Ahead(taskQueue', a, b)
          /\ hist'[b].dequeued > hist[b].dequeued =>
               /\ QueuePos(taskQueue, b) = 1
               /\ ~InQueue(b)' ]_vars

\* two jobs were submitted one after the other; the first has been returned
\* by pop_task and is being worked on while the second is still queued and
\* the other worker is about to pop
C18_Witness ==
  \E a, b \in Jobs, w, v \in Workers :
    /\ a # b /\ w # v
    /\ worker[w].job_id = a /\ hist[a].dequeued = 1
    /\ hist[b].enqueued /\ hist[b].dequeued = 0 /\ InQueue(b)
    /\ worker[v].pc = "pop"

\* ------------------------------------------- claims on ScreenshotService
\* C19: the capture target is chosen by clip > selector > page.  With clip
\* set, the page is captured with the clip rectangle and query_selector is
\* never called, so SELECTOR_NOT_FOUND can only come from wait_for_selector.
\* With no clip and a selector (a non-empty string), the first matching
\* element is captured and neither full_page nor omit_background is passed;
\* a selector that matches nothing gives SELECTOR_NOT_FOUND and no capture.
\* Otherwise the page is captured without clip, with full_page as given.  A
\* call that returns has made exactly this capture.
C19_CapturePriority ==
  \A c \in Renders :
    LET r == render[c]
        p == r.params
        captured == r.shot.api # "none"
    IN
    /\ r.outcome = "returned" => captured
    /\ p.clip =>
         /\ ~r.queried
         /\ captured => r.shot.api = "page.screenshot" /\ r.shot.clip
         /\ r.exc = "SELECTOR_NOT_FOUND" => p.wait_for_selector # "none"
    /\ (~p.clip /\ p.selector \notin {"none", ""}) =>
         /\ captured =>
              /\ r.shot.api = "element.screenshot" /\ r.shot.element = p.selector
              /\ p.selector = "#box" /\ r.queried
              /\ r.shot.full_page = "unset" /\ r.shot.omit_background = "unset"
              /\ ~r.shot.clip
         /\ (p.selector = "#miss" /\ r.outcome # "none") =>
              r.outcome = "raised" /\ ~captured
         /\ (p.selector = "#miss" /\ r.queried /\ r.pc \in {"finally", "done"}) =>
              r.exc \in {"SELECTOR_NOT_FOUND", "TIMEOUT", "SCREENSHOT_FAILED"}
    /\ (~p.clip /\ p.selector \in {"none", ""}) =>
         /\ ~r.queried
         /\ captured =>
              /\ r.shot.api = "page.screenshot" /\ ~r.shot.clip
              /\ r.shot.full_page = "true" <=> p.full_page
              /\ r.shot.full_page = "false" <=> ~p.full_page

\* a call with clip, full_page and a selector that matches nothing has
\* returned: the page was captured with the clip and the selector was not
\* queried
C19_Witness ==
  \E c \in Renders :
    /\ render[c].outcome = "returned"
    /\ render[c].params.clip /\ render[c].params.selector = "#miss"
    /\ render[c].params.full_page
    /\ render[c].shot.api = "page.screenshot" /\ render[c].shot.clip
    /\ ~render[c].queried

\* C20: every browser context has JavaScript disabled from its creation; a
\* page exists in a context, and content is loaded in it, only after the
\* routing hook is installed; and every request of a page was continued if
\* its URL begins with the five characters data: and aborted otherwise.
C20_ContextLockedDown ==
  \A c \in Renders :
    LET r == render[c] IN
    /\ r.context # "none" => ~r.js
    /\ r.page => r.routed /\ r.context # "none"
    /\ r.requests # {} => r.page /\ r.routed
    /\ r.pc \in {"wait_for_selector", "capture"} => r.page /\ r.routed
    /\ \A q \in r.requests :
         /\ q.decision \in {"continue", "abort"}
         /\ q.decision = "continue" <=>
              /\ Len(q.url) >= 5
              /\ q.url[1] = "d" /\ q.url[2] = "a" /\ q.url[3] = "t"
              /\ q.url[4] = "a" /\ q.url[5] = ":"

\* a document asked for a data: URL, which was continued, and for an http
\* URL whose query ends in data:, which was aborted, in a context without
\* JavaScript
C20_Witness ==
  \E c \in Renders :
    /\ render[c].outcome = "returned" /\ ~render[c].js
    /\ [url |-> DataUrl, decision |-> "continue"] \in render[c].requests
    /\ [url |-> QueryUrl, decision |-> "abort"] \in render[c].requests
    /\ [url |-> UpperUrl, decision |-> "abort"] \in render[c].requests

\* ------------------------------------------------ claims on the worker
\* a record has exactly one of image and error, as its status says
WellFormedRecord(rec) ==
  /\ IsTerminal(rec.status)
  /\ ~rec.result.isnull
  /\ (rec.status = "success")
       <=> (rec.result.image # "null" /\ rec.result.error = "null")
  /\ (rec.status = "failed")
       <=> (rec.result.error # "null" /\ rec.result.image = "null")

\* C21: every record on a result mailbox has a terminal status and a result
\* that is not None, and in it status = success iff image is set and error
\* is None, status = failed iff error is set and image is None.
C21_MailboxRecordShape ==
  \A j \in Jobs : \A i \in 1..Len(mailbox[j]) : WellFormedRecord(mailbox[j][i])

\* a success record and a failed record have both been pushed
C21_Witness ==
  /\ \E j \in Jobs : \E i \in 1..Len(mailbox[j]) :
       mailbox[j][i].status = "success"
  /\ \E j \in Jobs : \E i \in 1..Len(mailbox[j]) :
       mailbox[j][i].status = "failed"

\* ------------------------------------- claims on the dimension parsers
\* the unsigned big-endian number in the n bytes after offset off
UIntAt(data, off, n) ==
  LET RECURSIVE Sum(_)
      Sum(i) == IF i = 0 THEN 0 ELSE Sum(i - 1) * 256 + data[off + i]
  IN Sum(n)

HasPngSignature(data) ==
  Len(data) >= 8 /\ \A i \in 1..8 : data[i] = PNG_SIGNATURE[i]

\* C22: for every byte string the PNG parser returns the two big-endian
\* uint32 at bytes 16..24 as (width, height) when the string has at least
\* 24 bytes and starts with the PNG signature, and (0,0) otherwise; it
\* never raises.
C22_PngDimensions ==
  (image.pc = "built" /\ image.image_type = "png") =>
     IF Len(image.data) >= 24 /\ HasPngSignature(image.data)
       THEN /\ image.width = UIntAt(image.data, 16, 4)
            /\ image.height = UIntAt(image.data, 20, 4)
       ELSE image.width = 0 /\ image.height = 0

\* a PNG header with distinct, non-zero width and height has been parsed
C22_Witness ==
  /\ image.pc = "built" /\ image.image_type = "png"
  /\ Len(image.data) >= 24 /\ HasPngSignature(image.data)
  /\ image.width = 1 /\ image.height = 256

\* the walk over the segments as the claim words it: at offset pos a marker
\* and a length; a frame header gives the dimensions, any other segment is
\* stepped over by its length, which counts the two length bytes
SegmentWalk(data, pos) ==
  LET RECURSIVE Walk(_)
      Walk(at) ==
        IF at + 4 > Len(data) THEN Dims(0, 0)
        ELSE IF UIntAt(data, at, 2) \in SOF_MARKERS
          THEN IF at + 9 > Len(data) THEN Dims(0, 0)
               ELSE Dims(UIntAt(data, at + 7, 2), UIntAt(data, at + 5, 2))
        ELSE IF UIntAt(data, at + 2, 2) < 2 THEN Dims(0, 0)
        ELSE Walk(at + 2 + UIntAt(data, at + 2, 2))
  IN Walk(pos)

\* C23: for every byte string the JPEG parser returns (0,0) when the string
\* does not start with FF D8; otherwise it steps over the segments by their
\* lengths and at the first FFC0, FFC1 or FFC2 returns (width, height),
\* height being the first uint16 after the precision byte; a truncated or
\* malformed string gives (0,0).
C23_JpegDimensions ==
  (image.pc = "built" /\ image.image_type = "jpeg") =>
     Dims(image.width, image.height) =
       IF Len(image.data) >= 2 /\ image.data[1] = 255 /\ image.data[2] = 216
         THEN SegmentWalk(image.data, 2)
         ELSE Dims(0, 0)

\* the same without the strings that hold a segment of length 2
C23_JpegDimensionsNoEmptySegment ==
  (/\ image.pc = "built" /\ image.image_type = "jpeg"
   /\ \A i \in 1..(Len(image.data) - 3) :
        ~(image.data[i] = 255 /\ image.data[i + 1] = 254
            /\ image.data[i + 2] = 0 /\ image.data[i + 3] = 2))
    => Dims(image.width, image.height) =
         IF Len(image.data) >= 2 /\ image.data[1] = 255 /\ image.data[2] = 216
           THEN SegmentWalk(image.data, 2)
           ELSE Dims(0, 0)

\* ------------------------------------------------- claims on POST /rpc
\* the request of handler j came over HTTP and has been answered
Answered(j) == rpc[j].http /\ HttpReply(j).status # 0

\* the body of the POST of handler j is a request object without an id (an
\* id of null counts as none)
PostedNotification(j) ==
  /\ rpc[j].verb = "POST" /\ rpc[j].body_t = "object"
  /\ EnvelopeValid(Request(j)) /\ Request(j).id.t \in {"absent", "null"}

\* C24 as stated: the HTTP status on /rpc follows from the shape of the
\* request alone: OPTIONS gets 204 with the CORS headers, a method other
\* than POST and OPTIONS 405 with JSON-RPC error -32600, a POST
\* notification 204, every other POST 200 with a JSON body.
C24_HttpStatusByShape ==
  \A j \in Jobs : Answered(j) =>
     CASE rpc[j].verb = "OPTIONS" ->
            HttpReply(j).status = 204 /\ HttpReply(j).cors
       [] rpc[j].verb # "POST" ->
            HttpReply(j).status = 405 /\ IsError(HttpReply(j).body, INVALID_REQUEST)
       [] PostedNotification(j) -> HttpReply(j).status = 204
       [] OTHER ->
            HttpReply(j).status = 200 /\ HttpReply(j).body.kind = "response"

\* the part of C24 the code keeps: requests that are not POSTs, and POSTs
\* whose id is a string or an integer or that do not decode to an object
C24_HttpStatusOfIdentifiedRequests ==
  \A j \in Jobs :
    ( /\ Answered(j)
      /\ rpc[j].verb = "POST" =>
           \/ ~Decoded(j)
           \/ Request(j).id.t \in {"str", "int"} )
    => CASE rpc[j].verb = "OPTIONS" ->
              HttpReply(j).status = 204 /\ HttpReply(j).cors
         [] rpc[j].verb # "POST" ->
              HttpReply(j).status = 405 /\ IsError(HttpReply(j).body, INVALID_REQUEST)
         [] OTHER ->
              HttpReply(j).status = 200 /\ HttpReply(j).body.kind = "response"

\* --------------------------------------------- claims on the worker loop
\* the error text the worker publishes after each render outcome
ExpectedError(o) ==
  CASE o = "ok" -> "null"
    [] o = "exception" -> InternalErrorText
    [] OTHER -> SvcErrorText(o)

\* job id j went through a worker and that worker has let go of it
Finished(j) == hist[j].dequeued > 0 /\ Released(j)

\* the status key of job id j holds the terminal status of its render outcome
TerminalAsRendered(j) ==
  /\ GetJob(j).status = (IF hist[j].outcome = "ok" THEN "success" ELSE "failed")
  /\ GetJob(j).result.error = ExpectedError(hist[j].outcome)

\* C25 as stated (its last clause): no dequeued job whose status key exists
\* is still pending or processing when its worker pops the next task.
C25_TerminalBeforeNextPop ==
  \A j \in Jobs :
    (Finished(j) /\ KeyExists(j)) => IsTerminal(GetJob(j).status)

\* what holds of C25 while no broker call raises: a dequeued job is
\* eventually let go of with its status key gone or holding the terminal
\* status of its render outcome (success; failed with the error text of the
\* ScreenshotServiceError; failed with "internal error: <type>"), and one
\* record pushed
C25_PublishedWhileBrokerAnswers ==
  /\ [](\A j \in Jobs :
          (Finished(j) /\ KeyExists(j) /\ faults = 0)
            => (TerminalAsRendered(j) /\ hist[j].pushes = 1))
  /\ \A j \in Jobs :
       (hist[j].dequeued > 0) ~> (faults > 0 \/ Finished(j))

\* -------------------------------- claims on the screenshot() exit paths
\* C26 as stated: every browser context created during a screenshot call is
\* closed by the time the call returns or raises, on every exit path.
C26_ContextClosedOnExit ==
  \A c \in Renders :
    render[c].pc = "done" => render[c].context \in {"none", "closed"}

\* the part of C26 the code keeps: a context that screenshot() got back from
\* _create_context is closed when the call ends, however it ends
C26_ReturnedContextClosed ==
  \A c \in Renders :
    (render[c].pc = "done" /\ render[c].ctxvar) => render[c].context = "closed"

InSection(c) == render[c].pc \notin {"idle", "acquire", "done"}

BrokerRaised(w) == faults' = faults + 1 /\ worker'[w] # worker[w]

\* a step of worker w in which the render raised (a ScreenshotServiceError
\* or anything else)
RenderRaised(w) ==
  /\ worker[w].pc = "render" /\ worker'[w].pc # "render"
  /\ worker'[w].call = "failed"

\* the exception is raised outside the inner try block or inside one of its
\* except clauses: by pop_task, by update_job_status(job_id, "processing") or
\* by update_job_status(job_id, "failed", ...)
LoopLevel(w) ==
  BrokerRaised(w) /\ (worker[w].pc = "pop" \/ worker[w].call \in {"processing", "failed"})

\* C29 as stated: run() is left only with should_exit set, and after an
\* exception of pop_task, of update_job_status or of the render the worker
\* sleeps.
C29_SleepAfterEveryException ==
  /\ [](\A w \in Workers : proc[w].main # "run" => proc[w].should_exit)
  /\ [][\A w \in Workers :
          (BrokerRaised(w) \/ RenderRaised(w)) => worker'[w].pc = "sleep"]_vars

\* C29 amended: run() is left only with should_exit set and only from the
\* loop test; no exception ends it. An exception of pop_task, of the
\* "processing" update or of a "failed" update is caught at loop level: the
\* worker lets go of the task and sleeps, and the sleep is followed by the
\* loop test. An exception of the render or of the "success" update is
\* caught inside: the worker goes on, without sleeping, to publish the
\* failed status of the same job. Either way the worker gets back to the
\* loop test: it starts the next pop_task or, with should_exit set, leaves.
C29_LoopSurvivesExceptions ==
  /\ [](\A w \in Workers : proc[w].main # "run" => proc[w].should_exit)
  /\ [][\A w \in Workers :
          /\ (proc[w].main = "run" /\ proc'[w].main # "run")
               => (proc[w].should_exit /\ worker[w] = IdleWorker)
          /\ (BrokerRaised(w) \/ RenderRaised(w)) =>
               /\ proc'[w].main = "run"
               /\ IF LoopLevel(w)
                    THEN worker'[w] = [IdleWorker EXCEPT !.pc = "sleep"]
                    ELSE /\ worker'[w].pc = "upd_get"
                         /\ worker'[w].call = "failed"
                         /\ worker'[w].job_id = worker[w].job_id
                         /\ worker'[w].result.error # "null"
          /\ (worker[w].pc = "sleep" /\ worker'[w] # worker[w])
               => (worker'[w] = IdleWorker /\ proc'[w] = proc[w])]_vars
  /\ \A w \in Workers :
       (worker[w].pc \in {"sleep", "render"})
         ~> (worker[w].pc = "pop" /\ (proc[w].polling \/ proc[w].should_exit))

\* one worker sleeps after a broker call raised, the other publishes the
\* failed status of a job whose render raised
C29_Witness ==
  \E w, v \in Workers :
    /\ worker[w].pc = "sleep" /\ faults = 1 /\ proc[w].main = "run"
    /\ worker[v].pc = "upd_get" /\ worker[v].call = "failed"
    /\ hist[worker[v].job_id].outcome \in {"TIMEOUT", "exception"}

\* ------------------------------------------- claims on update_job_status
\* C31 as stated: nothing but submit_task brings a status key into
\* existence, and while the status key of a job is absent no entry is pushed
\* on its mailbox, under any interleaving with TTL eviction.
C31_NoWriteWhileKeyAbsent ==
  [][\A j \in Jobs :
       ~KeyExists(j) =>
         /\ (statusStore'[j] # NoJob => (~hist[j].created /\ hist'[j].created))
         /\ Len(mailbox'[j]) <= Len(mailbox[j])]_vars

\* the part of C31 the code keeps: an update_job_status whose get_job finds
\* the key absent returns with no broker write, whatever the status; the
\* pushes and the SET are made only by a call whose get_job loaded a record
C31_NoWriteWhenFoundAbsent ==
  /\ [][\A w \in Workers :
          (worker[w].pc = "upd_get" /\ ~KeyExists(worker[w].job_id)
             /\ worker'[w] # worker[w] /\ faults' = faults)
          => /\ statusStore' = statusStore /\ mailbox' = mailbox
             /\ mailboxTTL' = mailboxTTL
             /\ worker'[w].pc # "upd_push" /\ worker'[w].pc # "upd_set"]_vars
  /\ [](\A w \in Workers :
          worker[w].pc \in {"upd_push", "upd_expire", "upd_set"}
            => worker[w].job # NoJob)

\* wait_for_result has handed a record of job id j to its handler
GotRecord(j) == gateway[j].pc = "done" /\ gateway[j].waited = "job"

\* C32 as stated: once wait_for_result has returned a terminal record, a
\* get_job of that job never answers pending or processing: the status key,
\* where it exists, holds the terminal status of the record.
C32_StatusKeyTerminalOnReceipt ==
  \A j \in Jobs :
    (GotRecord(j) /\ KeyExists(j)) =>
       /\ IsTerminal(GetJob(j).status)
       /\ GetJob(j).status = gateway[j].job.status

\* what holds of C32: the record received is terminal, and once the worker
\* has let go of the job with no broker call having raised, the status key,
\* where it exists, holds the status of the record
C32_StatusKeyTerminalAfterUpdate ==
  \A j \in Jobs :
    GotRecord(j) =>
       /\ IsTerminal(gateway[j].job.status)
       /\ (Released(j) /\ KeyExists(j) /\ faults = 0)
            => GetJob(j).status = gateway[j].job.status

\* ---------------------------------------- claims on the handler's wait
\* C33: the timeout a screenshot handler passes to the blocking mailbox pop
\* is between 5 and 125 seconds, never 0; every dispatched screenshot call
\* gets its reply, whether or not a worker ever takes a step; a call whose
\* wait_for_result has returned ends with a result, -32001 or -32004, and
\* with -32004 when no worker dequeued its job.
C33_HandlerReplies ==
  /\ [](\A j \in Jobs :
          /\ gateway[j].pc = "wait" => gateway[j].timeout \in 5..125
          /\ gateway[j].waited # "no" =>
               /\ gateway[j].pc = "done"
               /\ \/ gateway[j].reply.kind = "result"
                  \/ /\ gateway[j].reply.kind = "error"
                     /\ gateway[j].reply.code \in {SCREENSHOT_FAILED, TIMEOUT}
          /\ (gateway[j].waited # "no" /\ hist[j].dequeued = 0) =>
               gateway[j].reply.code = TIMEOUT)
  /\ \A j \in Jobs :
       (rpc[j].stage = "handler") ~> (gateway[j].pc = "done")

\* no worker has taken a step, and the handler of a call with timeout_ms = 0
\* has waited its 5 seconds and answered -32004
C33_Witness ==
  \E j \in Jobs :
    /\ \A w \in Workers : worker[w] = IdleWorker
    /\ \A k \in Jobs : hist[k].dequeued = 0
    /\ gateway[j].params.timeout_ms = 0 /\ gateway[j].timeout = 5
    /\ gateway[j].pc = "done" /\ gateway[j].waited = "nil"
    /\ gateway[j].reply.code = TIMEOUT

\* ------------------------------------------ claims on the worker's pace
\* the jobs worker w has in hand
InHand(w) == {j \in Jobs : worker[w].job_id = j}

\* C34: a worker has at most one job in hand and calls pop_task only with
\* none in hand, so at most one render per worker is in progress and no two
\* workers render the same job; a job a worker has let go of had its
\* terminal record pushed once, unless a broker call raised or its status
\* key had lapsed; every submitted job not yet dequeued is on the task queue.
C34_OneJobAtATime ==
  /\ [](\A w \in Workers :
          /\ Cardinality(InHand(w)) <= 1
          /\ proc[w].polling => (worker[w] = IdleWorker)
          /\ worker[w].pc = "render" =>
               /\ Cardinality(InHand(w)) = 1
               /\ hist[worker[w].job_id].rendered = 0
               /\ \A v \in Workers \ {w} : worker[v].job_id # worker[w].job_id)
  /\ [](\A j \in Jobs :
          /\ (hist[j].enqueued /\ hist[j].dequeued = 0) => InQueue(j)
          /\ (Finished(j) /\ KeyExists(j) /\ faults = 0) => hist[j].pushes = 1)
  /\ [](Cardinality({j \in Jobs : hist[j].dequeued > 0 /\ ~Released(j)})
          <= MaxWorkers)
  /\ [][\A w \in Workers :
          (~proc[w].polling /\ proc'[w].polling) =>
             (worker[w] = IdleWorker /\ worker'[w] = IdleWorker)]_vars

\* a worker is rendering one job while the next one waits on the task queue
\* and the other worker has not taken it
C34_Witness ==
  \E w \in Workers : \E j, k \in Jobs :
    /\ worker[w].pc = "render" /\ worker[w].job_id = j
    /\ InQueue(k) /\ hist[k].dequeued = 0
    /\ \A v \in Workers \ {w} : worker[v] = IdleWorker

====
